---- MODULE Spec2Model ----
(***************************************************************************)
(* Market-state routing and safety gating of BuriBuri_Trading.             *)
(*                                                                         *)
(*   Spec       the DataRouter (data_router.py) over the                   *)
(*              HistoricalDataService (historical_data_service.py), the    *)
(*              market-status resolver and the live adapter, driven by     *)
(*              the operations the API layer and the runner call.          *)
(*   GuardSpec  the pure function apply_risk_guardrails                    *)
(*              (risk_guardrails.py) applied to bounded inputs.            *)
(*   ModeSpec   the memoized market-status resolver of market_mode.py on   *)
(*              a host whose clock and environment change.                 *)
(*   HistSpec   load_historical_data of the HistoricalDataService over a   *)
(*              fixed cache directory.                                     *)
(*                                                                         *)
(* Python values: a dict is a TLA+ record (function over its keys), a      *)
(* missing key is a key outside DOMAIN, None is PyNone, a list is a        *)
(* sequence.  Optional strings use the string "None" for None.             *)
(***************************************************************************)
EXTENDS Integers, Sequences, FiniteSets, TLC

VARIABLES
    router,            \* the DataRouter singleton's fields
    now,               \* wall clock, seconds
    market_open,       \* what the market-status resolver reports when asked
    resp,              \* the response of the last router operation
    proposed_actions,  \* input of apply_risk_guardrails
    risk_context,      \* input of apply_risk_guardrails
    guard_result,      \* output of apply_risk_guardrails
    market_mode,       \* market_mode.py: its module globals
    host,              \* what market_mode.py finds on its host: clock, credentials, libraries
    mode_resp,         \* the outcome of the last get_market_status call of market_mode.py
    service,           \* the HistoricalDataService singleton's fields
    hist_resp,         \* the outcome of the last load_historical_data call
    hist_kept,         \* an earlier load, kept for comparison
    requests,          \* the run_market_aware_analysis calls in flight, by thread
    backend,           \* the Flask backend: ENV, the limiter's window, the memory file
    api_resp           \* the response of the last POST /run

vars == <<router, now, market_open, resp, proposed_actions, risk_context, guard_result,
          market_mode, host, mode_resp, service, hist_resp, hist_kept,
          requests, backend, api_resp>>
routerVars == <<router, now, market_open, resp>>
guardVars == <<proposed_actions, risk_context, guard_result>>
modeVars == <<market_mode, host, mode_resp>>
histVars == <<service, hist_resp, hist_kept>>
appVars == <<requests, backend, api_resp>>

(***************************************************************************)
(* Python helpers                                                          *)
(***************************************************************************)
PyNone == [py_none |-> TRUE]
IsNone(v) == DOMAIN v = {"py_none"}

\* dict.get(k, default)
Get(d, k, default) == IF k \in DOMAIN d THEN d[k] ELSE default

\* {**d, k: v}  /  d.copy(); d[k] = v
With(d, k, v) == [kk \in (DOMAIN d) \cup {k} |-> IF kk = k THEN v ELSE d[kk]]

\* [f(x) for x in s if keep(x)] with f the identity
RECURSIVE SelectSeqIdx(_, _, _)
SelectSeqIdx(s, keep, i) ==
    IF i > Len(s) THEN << >>
    ELSE IF i \in keep THEN <<s[i]>> \o SelectSeqIdx(s, keep, i + 1)
         ELSE SelectSeqIdx(s, keep, i + 1)

(***************************************************************************)
(* Bounds of the model                                                     *)
(***************************************************************************)
MaxTime == 120      \* the clock stops advancing here
TickStep == 30      \* seconds between two observable instants

(***************************************************************************)
(* Constants of data_router.py and historical_data_service.py              *)
(***************************************************************************)
DATA_MODE_LIVE == "LIVE"
DATA_MODE_HISTORICAL == "HISTORICAL"
DATA_SOURCE_LIVE == "Alpaca + Polygon"
DATA_SOURCE_HISTORICAL == "Alpaca Historical Cache"
DATA_SOURCE_CONNECTION_ERROR == "Alpaca + Polygon (Connection Error)"
StaleAfter == 60
NoCheck == -1       \* the attribute _last_status_check does not exist yet

\* TIME_RANGES: key -> months
TIME_RANGES == [k \in {"1M", "4M", "6M", "1Y"} |->
                  CASE k = "1M" -> 1 [] k = "4M" -> 4 [] k = "6M" -> 6 [] OTHER -> 12]
DaysPerMonth == 30

(***************************************************************************)
(* HistoricalDataService (historical_data_service.py)                      *)
(***************************************************************************)
\* A candle of a cache file. A timestamp counts hours; timestamp[:10], its
\* date, is the day it falls in. A daily bar is stamped 05:00.
Candle(day, close) == [timestamp |-> day * 24 + 5, close |-> close]

\* The candle series of the cache files of the default cache directory.
\* IWM's file holds an empty array.
cache_files ==
    [s \in {"IWM", "QQQ", "SPY"} |->
        CASE s = "SPY" -> <<Candle(0, 10), Candle(200, 12), Candle(250, 11),
                            Candle(340, 15), Candle(400, 14)>>
          [] s = "QQQ" -> <<Candle(300, 20), Candle(390, 22)>>
          [] OTHER     -> << >>]

\* A file of the cache directory: the '_'-separated parts of its name
\* (SYMBOL_STARTDATE_ENDDATE.json has three), whether json.load succeeds,
\* and the array it holds
CacheFile(symbol, start_date, end_date, parts, readable, data) ==
    [symbol |-> symbol, start_date |-> start_date, end_date |-> end_date,
     parts |-> parts, readable |-> readable, data |-> data]

\* CACHE_DIR as the router finds it
CACHE_DIR ==
    <<CacheFile("SPY", 0, 400, 3, TRUE, cache_files["SPY"]),
      CacheFile("QQQ", 300, 390, 3, TRUE, cache_files["QQQ"]),
      CacheFile("IWM", 0, 400, 3, TRUE, cache_files["IWM"])>>

InSeq(x, s) == \E i \in 1..Len(s) : s[i] = x

\* the symbols in the order list.sort() puts them
SymbolOrder == <<"", "DIA", "GLD", "IWM", "NVDA", "QQQ", "SPY", "XLF">>

\* HistoricalDataService(): __init__ and _scan_cache over a directory listing
HistoricalDataService(dir) ==
    LET named == {i \in 1..Len(dir) : dir[i].parts >= 3}
        symbols == {dir[i].symbol : i \in named}
        file_of(sym) == CHOOSE i \in named :
                            /\ dir[i].symbol = sym
                            /\ \A j \in named : dir[j].symbol = sym => j <= i
    IN [cache_dir |-> dir,
        available_symbols |-> SelectSeq(SymbolOrder, LAMBDA sym : sym \in symbols),
        cache_metadata |->
            [sym \in symbols |->
                [symbol |-> sym,
                 start_date |-> dir[file_of(sym)].start_date,
                 end_date |-> dir[file_of(sym)].end_date,
                 filepath |-> file_of(sym),
                 candle_count |-> IF dir[file_of(sym)].readable
                                  THEN Len(dir[file_of(sym)].data) ELSE 0,
                 data_source |-> "Alpaca Historical"]]]

\* get_historical_service(): the singleton over CACHE_DIR
get_historical_service == HistoricalDataService(CACHE_DIR)

\* self._available_symbols after _scan_cache: sorted symbol list
available_symbols == get_historical_service.available_symbols

get_available_symbols == available_symbols

\* get_time_ranges(): the keys of TIME_RANGES.copy()
get_time_ranges == DOMAIN TIME_RANGES

\* c.get("timestamp", "")[:10] as text: the date, or the empty string
date_text(c) == IF "timestamp" \in DOMAIN c THEN <<c.timestamp \div 24>> ELSE << >>

\* strptime(last_date_str, "%Y-%m-%d") succeeds
has_date(c) == date_text(c) # << >>

cutoff_date_ahead(last_date, months) == last_date + months * DaysPerMonth

\* last_date - timedelta(days=months * 30), line 157
cutoff_date(last_date, months) == last_date - months * DaysPerMonth

in_window_strict(c, cutoff) == has_date(c) /\ date_text(c)[1] > cutoff

\* c.get("timestamp", "")[:10] >= cutoff_str, line 163: the empty string
\* sorts before every date
in_window(c, cutoff) == has_date(c) /\ date_text(c)[1] >= cutoff

\* lines 148-170
filter_by_time_range(all_candles, time_range) ==
    IF time_range \in DOMAIN TIME_RANGES /\ all_candles # << >>
           /\ has_date(all_candles[Len(all_candles)])
    THEN LET months == TIME_RANGES[time_range]
             last_date == date_text(all_candles[Len(all_candles)])[1]
             cutoff == cutoff_date(last_date, months)
         IN SelectSeqIdx(all_candles,
                {i \in 1..Len(all_candles) : in_window(all_candles[i], cutoff)}, 1)
    ELSE all_candles

not_found_as_empty_series(self, symbol) ==
    [status |-> "success", candles |-> << >>, metadata |-> PyNone]

\* lines 125-132
not_found(self, symbol) ==
    [status |-> "error", error |-> "not found in historical cache",
     available_symbols |-> self.available_symbols,
     candles |-> << >>, metadata |-> PyNone]

\* lines 172-187
response_meta(symbol, time_range, meta, filtered_candles) ==
    LET base == [symbol |-> symbol, data_source |-> "Alpaca Historical",
                 time_range |-> time_range,
                 candle_count |-> Len(filtered_candles),
                 total_cached_candles |-> meta.candle_count,
                 cache_start_date |-> meta.start_date,
                 cache_end_date |-> meta.end_date,
                 feed_mode |-> "HISTORICAL"]
    IN IF filtered_candles # << >>
       THEN base @@ [data_start |-> date_text(filtered_candles[1]),
                     data_end |-> date_text(filtered_candles[Len(filtered_candles)])]
       ELSE base

\* a load that drops the symbol it served from the service
self_after_load_evicting(self, symbol) ==
    [self EXCEPT !.available_symbols = SelectSeq(@, LAMBDA sym : sym # symbol)]

\* the service after a load: load_historical_data assigns no attribute of self
self_after_load(self, symbol) == self

\* HistoricalDataService.load_historical_data(self, symbol, time_range): the
\* result and the service after the call
HistoricalDataService_load_historical_data(self, symbol, time_range) ==
    IF ~InSeq(symbol, self.available_symbols)
    THEN [self |-> self_after_load(self, symbol), result |-> not_found(self, symbol)]
    ELSE
      LET meta == self.cache_metadata[symbol]
          file == self.cache_dir[meta.filepath]
          filtered_candles == filter_by_time_range(file.data, time_range)
      IN [self |-> self_after_load(self, symbol),
          result |->
            IF ~file.readable
            THEN [status |-> "error", error |-> "Failed to load data",
                  candles |-> << >>, metadata |-> meta]
            ELSE [status |-> "success", candles |-> filtered_candles,
                  metadata |-> response_meta(symbol, time_range, meta, filtered_candles)]]

\* load_historical_data(symbol, time_range) on the singleton
load_historical_data(symbol, time_range) ==
    HistoricalDataService_load_historical_data(get_historical_service, symbol, time_range).result

Min(a, b) == IF a < b THEN a ELSE b

\* generate_portfolio_from_historical(symbol, candles)
generate_portfolio_from_historical(symbol, candles) ==
    IF candles = << >>
    THEN [total_capital |-> 100000, cash |-> 100000, risk_tolerance |-> "moderate"]
    ELSE [total_capital |-> 100000, cash |-> 25000, risk_tolerance |-> "moderate"]

SectorOf(symbol) ==
    CASE symbol = "SPY" -> "INDEX" [] symbol = "QQQ" -> "TECH"
      [] symbol = "IWM" -> "SMALL_CAP" [] OTHER -> "EQUITY"

\* generate_positions_from_historical(symbol, candles); the ATR field is
\* not carried.
generate_positions_from_historical(symbol, candles) ==
    IF candles = << >> THEN << >>
    ELSE LET n == Len(candles)
             current_price == candles[n].close
             lookback == Min(20, n - 1)
             entry_candle == IF lookback > 0 THEN candles[n - lookback] ELSE candles[1]
         IN << [symbol |-> symbol, sector |-> SectorOf(symbol),
                entry_price |-> entry_candle.close,
                current_price |-> current_price,
                days_held |-> lookback,
                capital_allocated |-> 75000] >>

\* generate_sector_heatmap(symbol)
generate_sector_heatmap(symbol) ==
    CASE symbol = "SPY" -> [INDEX |-> 60, TECH |-> 55, HEALTHCARE |-> 50, ENERGY |-> 45]
      [] symbol = "QQQ" -> [TECH |-> 70, INDEX |-> 50, HEALTHCARE |-> 45, ENERGY |-> 40]
      [] symbol = "IWM" -> [SMALL_CAP |-> 55, INDEX |-> 50, TECH |-> 50, ENERGY |-> 50]
      [] OTHER -> [EQUITY |-> 50, TECH |-> 50, INDEX |-> 50]

(***************************************************************************)
(* What the environment can answer during one router operation             *)
(***************************************************************************)
\* A call of a live-adapter method either raises or returns a value.
Raises == [raises |-> TRUE, value |-> << >>]
RaisesRec == [raises |-> TRUE, value |-> PyNone]
Returns(v) == [raises |-> FALSE, value |-> v]

LiveCandle == [timestamp |-> 1000, close |-> 150]
LivePosition == [symbol |-> "AAPL", qty |-> 10]
LiveCandidate == [symbol |-> "NVDA", sector |-> "TECH"]
LiveHeatmap == [TECH |-> 75, FINANCE |-> 60]
LivePortfolio == [total_capital |-> 100000, cash |-> 50000]

\* get_recent_candles / get_positions / get_candidates: raise, empty, or data
SeqOutcomes(x) == {Raises, Returns(<< >>), Returns(<<x>>)}
\* get_portfolio / get_sector_heatmap: raise or data
RecOutcomes(x) == {RaisesRec, Returns(x)}

\* The resolver's answer (the shape the tests mock)
get_market_status(is_open) ==
    [is_open |-> is_open, label |-> IF is_open THEN "OPEN" ELSE "CLOSED"]

\* Everything one operation may observe: the resolver's answer, the clock,
\* whether AlpacaAdapter() can be constructed, and the adapter's answers.
Envs ==
    [status : {get_market_status(market_open)},
     t : {now},
     ctor_ok : BOOLEAN,
     positions : SeqOutcomes(LivePosition)]


(***************************************************************************)
(* DataRouter (data_router.py)                                             *)
(***************************************************************************)
\* DataRouter.__init__
DataRouter ==
    [market_status |-> PyNone,
     data_mode |-> "None",
     data_source |-> "None",
     initialized |-> FALSE,
     selected_symbol |-> "SPY",
     selected_time_range |-> "6M",
     live_adapter |-> "None",
     last_status_check |-> NoCheck]

\* a construction failure that leaves the data_source label untouched
initialize_live_adapter_silent(r, e) ==
    IF e.ctor_ok
    THEN [r EXCEPT !.live_adapter = "AlpacaAdapter"]
    ELSE [r EXCEPT !.live_adapter = "None"]

\* _initialize_live_adapter: construct AlpacaAdapter or record the failure
initialize_live_adapter(r, e) ==
    IF e.ctor_ok
    THEN [r EXCEPT !.live_adapter = "AlpacaAdapter"]
    ELSE [r EXCEPT !.live_adapter = "None",
                   !.data_source = DATA_SOURCE_CONNECTION_ERROR]

\* a refresh that keeps the data mode chosen at the first resolution
refresh_market_status_keepmode(r, e) ==
    LET r1 == [r EXCEPT !.market_status = e.status, !.last_status_check = e.t]
        is_open == IF r.data_mode = "None" THEN Get(r1.market_status, "is_open", FALSE)
                   ELSE r.data_mode = DATA_MODE_LIVE
        r2 == IF is_open
              THEN initialize_live_adapter(
                       [r1 EXCEPT !.data_mode = DATA_MODE_LIVE,
                                  !.data_source = DATA_SOURCE_LIVE], e)
              ELSE [r1 EXCEPT !.data_mode = DATA_MODE_HISTORICAL,
                              !.data_source = DATA_SOURCE_HISTORICAL,
                              !.live_adapter = "None"]
    IN [r2 EXCEPT !.initialized = TRUE]

\* a refresh that keeps the adapter reference when the market has closed
refresh_market_status_keep_adapter(r, e) ==
    LET r1 == [r EXCEPT !.market_status = e.status, !.last_status_check = e.t]
        is_open == Get(r1.market_status, "is_open", FALSE)
        r2 == IF is_open
              THEN initialize_live_adapter(
                       [r1 EXCEPT !.data_mode = DATA_MODE_LIVE,
                                  !.data_source = DATA_SOURCE_LIVE], e)
              ELSE [r1 EXCEPT !.data_mode = DATA_MODE_HISTORICAL,
                              !.data_source = DATA_SOURCE_HISTORICAL]
    IN [r2 EXCEPT !.initialized = TRUE]

\* _refresh_market_status
refresh_market_status(r, e) ==
    LET r1 == [r EXCEPT !.market_status = e.status, !.last_status_check = e.t]
        is_open == Get(r1.market_status, "is_open", FALSE)
        r2 == IF is_open
              THEN initialize_live_adapter(
                       [r1 EXCEPT !.data_mode = DATA_MODE_LIVE,
                                  !.data_source = DATA_SOURCE_LIVE], e)
              ELSE [r1 EXCEPT !.data_mode = DATA_MODE_HISTORICAL,
                              !.data_source = DATA_SOURCE_HISTORICAL,
                              !.live_adapter = "None"]
    IN [r2 EXCEPT !.initialized = TRUE]

\* _get_live_symbols
get_live_symbols(r, e) ==
    IF r.live_adapter = "None" THEN << >>
    ELSE IF e.positions.raises THEN << >>
    ELSE [i \in 1..Len(e.positions.value) |-> e.positions.value[i].symbol]

\* a staleness check with a threshold of two minutes
status_is_stale_two_minutes(r, e) ==
    r.last_status_check # NoCheck /\ e.t - r.last_status_check > 2 * StaleAfter

\* the staleness check of lines 128-131
status_is_stale(r, e) ==
    r.last_status_check # NoCheck /\ e.t - r.last_status_check > StaleAfter

\* get_routing_config from the staleness check on (lines 127-168)
routing_config_body(r, e) ==
    LET stale == status_is_stale(r, e)
        r1 == IF stale THEN refresh_market_status(r, e) ELSE r
        is_open == Get(r1.market_status, "is_open", FALSE)
        base == [market_status |-> Get(r1.market_status, "label", "UNKNOWN"),
                 is_open |-> is_open,
                 data_mode |-> r1.data_mode,
                 data_source |-> r1.data_source,
                 selected_symbol |-> r1.selected_symbol,
                 timestamp |-> e.t]
        live == [available_symbols |-> get_live_symbols(r1, e),
                 available_time_ranges |-> {},
                 selected_time_range |-> "None",
                 controls_enabled |-> [symbol_selector |-> FALSE,
                                       time_range_selector |-> FALSE]]
        hist == [available_symbols |-> get_available_symbols,
                 available_time_ranges |-> get_time_ranges,
                 selected_time_range |-> r1.selected_time_range,
                 controls_enabled |-> [symbol_selector |-> TRUE,
                                       time_range_selector |-> TRUE]]
    IN [router |-> r1, config |-> base @@ (IF is_open THEN live ELSE hist)]

\* initialize: refresh, then get_routing_config (now initialized)
initialize(r, e) == routing_config_body(refresh_market_status(r, e), e)

\* the `if not self._initialized: self.initialize()` every method starts with
ensure_initialized(r, e) == IF ~r.initialized THEN initialize(r, e).router ELSE r

\* get_routing_config
get_routing_config(r, e) == routing_config_body(ensure_initialized(r, e), e)

\* a set_symbol that does not look at the market status
set_symbol_unguarded(r, symbol, e) ==
    LET r1 == ensure_initialized(r, e)
    IN IF ~InSeq(symbol, get_available_symbols)
       THEN [router |-> r1, raised |-> "ValueError",
             error |-> "Symbol not found in historical cache", config |-> PyNone]
       ELSE LET c == get_routing_config([r1 EXCEPT !.selected_symbol = symbol], e)
            IN [router |-> c.router, raised |-> "None", error |-> "None", config |-> c.config]

\* set_symbol: the result names the exception raised, "None" when it returns
set_symbol(r, symbol, e) ==
    LET r1 == ensure_initialized(r, e)
        is_open == Get(r1.market_status, "is_open", FALSE)
    IN IF is_open
       THEN [router |-> r1, raised |-> "ValueError",
             error |-> "Symbol selection disabled during live market hours", config |-> PyNone]
       ELSE IF ~InSeq(symbol, get_available_symbols)
       THEN [router |-> r1, raised |-> "ValueError",
             error |-> "Symbol not found in historical cache", config |-> PyNone]
       ELSE LET c == get_routing_config([r1 EXCEPT !.selected_symbol = symbol], e)
            IN [router |-> c.router, raised |-> "None", error |-> "None", config |-> c.config]

\* a set_time_range that stores the key before validating it
set_time_range_eager(r, time_range, e) ==
    LET r1 == ensure_initialized(r, e)
        is_open == Get(r1.market_status, "is_open", FALSE)
        r2 == [r1 EXCEPT !.selected_time_range = time_range]
    IN IF is_open
       THEN [router |-> r1, raised |-> "ValueError",
             error |-> "Time range selection disabled during live market hours", config |-> PyNone]
       ELSE IF time_range \notin get_time_ranges
       THEN [router |-> r2, raised |-> "ValueError",
             error |-> "Invalid time range", config |-> PyNone]
       ELSE LET c == get_routing_config(r2, e)
            IN [router |-> c.router, raised |-> "None", error |-> "None", config |-> c.config]

\* a set_time_range that accepts every key
set_time_range_unvalidated(r, time_range, e) ==
    LET r1 == ensure_initialized(r, e)
        is_open == Get(r1.market_status, "is_open", FALSE)
    IN IF is_open
       THEN [router |-> r1, raised |-> "ValueError",
             error |-> "Time range selection disabled during live market hours", config |-> PyNone]
       ELSE LET c == get_routing_config([r1 EXCEPT !.selected_time_range = time_range], e)
            IN [router |-> c.router, raised |-> "None", error |-> "None", config |-> c.config]

\* set_time_range
set_time_range(r, time_range, e) ==
    LET r1 == ensure_initialized(r, e)
        is_open == Get(r1.market_status, "is_open", FALSE)
    IN IF is_open
       THEN [router |-> r1, raised |-> "ValueError",
             error |-> "Time range selection disabled during live market hours", config |-> PyNone]
       ELSE IF time_range \notin get_time_ranges
       THEN [router |-> r1, raised |-> "ValueError",
             error |-> "Invalid time range", config |-> PyNone]
       ELSE LET c == get_routing_config([r1 EXCEPT !.selected_time_range = time_range], e)
            IN [router |-> c.router, raised |-> "None", error |-> "None", config |-> c.config]

\* a live path that serves the cache when the adapter is missing
get_live_market_data_fallback(r, candles, headlines_raise) ==
    IF r.live_adapter = "None"
    THEN [data_mode |-> DATA_MODE_LIVE, data_source |-> r.data_source]
           @@ load_historical_data(r.selected_symbol, r.selected_time_range)
    ELSE IF candles.raises \/ headlines_raise
    THEN [status |-> "error", error |-> "adapter error",
          data_mode |-> DATA_MODE_LIVE, data_source |-> r.data_source,
          candles |-> << >>, metadata |-> PyNone]
    ELSE [status |-> "success", data_mode |-> DATA_MODE_LIVE,
          data_source |-> DATA_SOURCE_LIVE, symbol |-> r.selected_symbol,
          candles |-> candles.value, headlines |-> << >>,
          metadata |-> [symbol |-> r.selected_symbol,
                        data_source |-> DATA_SOURCE_LIVE,
                        feed_mode |-> DATA_MODE_LIVE,
                        candle_count |-> Len(candles.value)]]

\* _get_live_market_data; candles is the outcome of get_recent_candles and
\* headlines_raise tells whether get_headlines raises
get_live_market_data(r, candles, headlines_raise) ==
    IF r.live_adapter = "None"
    THEN [status |-> "error", error |-> "Live adapter not available",
          data_mode |-> DATA_MODE_LIVE, data_source |-> r.data_source,
          candles |-> << >>, metadata |-> PyNone]
    ELSE IF candles.raises \/ headlines_raise
    THEN [status |-> "error", error |-> "adapter error",
          data_mode |-> DATA_MODE_LIVE, data_source |-> r.data_source,
          candles |-> << >>, metadata |-> PyNone]
    ELSE [status |-> "success", data_mode |-> DATA_MODE_LIVE,
          data_source |-> DATA_SOURCE_LIVE, symbol |-> r.selected_symbol,
          candles |-> candles.value, headlines |-> << >>,
          metadata |-> [symbol |-> r.selected_symbol,
                        data_source |-> DATA_SOURCE_LIVE,
                        feed_mode |-> DATA_MODE_LIVE,
                        candle_count |-> Len(candles.value)]]

\* a historical path that always serves the default selection
get_historical_market_data_default(r) ==
    load_historical_data("SPY", "6M")
      @@ [data_mode |-> DATA_MODE_HISTORICAL,
          data_source |-> DATA_SOURCE_HISTORICAL,
          symbol |-> "SPY",
          time_range |-> "6M",
          headlines |-> << >>]

\* _get_historical_market_data
get_historical_market_data(r) ==
    load_historical_data(r.selected_symbol, r.selected_time_range)
      @@ [data_mode |-> DATA_MODE_HISTORICAL,
          data_source |-> DATA_SOURCE_HISTORICAL,
          symbol |-> r.selected_symbol,
          time_range |-> r.selected_time_range,
          headlines |-> << >>]

\* a get_market_data that re-resolves a stale status before it routes
get_market_data_refreshing(r, e, candles, headlines_raise) ==
    LET r0 == ensure_initialized(r, e)
        r1 == IF status_is_stale(r0, e) THEN refresh_market_status(r0, e) ELSE r0
        is_open == Get(r1.market_status, "is_open", FALSE)
    IN [router |-> r1,
        result |-> IF is_open THEN get_live_market_data(r1, candles, headlines_raise)
                   ELSE get_historical_market_data(r1)]

\* get_market_data
get_market_data(r, e, candles, headlines_raise) ==
    LET r1 == ensure_initialized(r, e)
        is_open == Get(r1.market_status, "is_open", FALSE)
    IN [router |-> r1,
        result |-> IF is_open THEN get_live_market_data(r1, candles, headlines_raise)
                   ELSE get_historical_market_data(r1)]

\* _get_live_portfolio; portfolio and positions are the adapter's outcomes
get_live_portfolio(r, portfolio, positions) ==
    IF r.live_adapter = "None"
    THEN [status |-> "error", error |-> "Live adapter not available",
          portfolio |-> PyNone, positions |-> << >>]
    ELSE IF portfolio.raises \/ positions.raises
    THEN [status |-> "error", error |-> "adapter error",
          portfolio |-> PyNone, positions |-> << >>]
    ELSE [status |-> "success", data_mode |-> DATA_MODE_LIVE,
          data_source |-> DATA_SOURCE_LIVE,
          portfolio |-> portfolio.value, positions |-> positions.value]

\* _get_historical_portfolio
get_historical_portfolio(r) ==
    LET result == load_historical_data(r.selected_symbol, r.selected_time_range)
    IN IF result.status # "success"
       THEN [status |-> "error", error |-> result.error,
             portfolio |-> PyNone, positions |-> << >>]
       ELSE [status |-> "success", data_mode |-> DATA_MODE_HISTORICAL,
             data_source |-> DATA_SOURCE_HISTORICAL,
             portfolio |-> generate_portfolio_from_historical(r.selected_symbol, result.candles),
             positions |-> generate_positions_from_historical(r.selected_symbol, result.candles),
             metadata |-> result.metadata]

\* a get_portfolio_data that re-resolves a stale status before it routes
get_portfolio_data_refreshing(r, e, portfolio) ==
    LET r0 == ensure_initialized(r, e)
        r1 == IF status_is_stale(r0, e) THEN refresh_market_status(r0, e) ELSE r0
        is_open == Get(r1.market_status, "is_open", FALSE)
    IN [router |-> r1,
        result |-> IF is_open THEN get_live_portfolio(r1, portfolio, e.positions)
                   ELSE get_historical_portfolio(r1)]

\* get_portfolio_data
get_portfolio_data(r, e, portfolio) ==
    LET r1 == ensure_initialized(r, e)
        is_open == Get(r1.market_status, "is_open", FALSE)
    IN [router |-> r1,
        result |-> IF is_open THEN get_live_portfolio(r1, portfolio, e.positions)
                   ELSE get_historical_portfolio(r1)]

\* get_sector_heatmap; heatmap is the adapter's outcome
get_sector_heatmap(r, e, heatmap) ==
    LET r1 == ensure_initialized(r, e)
        is_open == Get(r1.market_status, "is_open", FALSE)
    IN [router |-> r1,
        result |-> IF is_open /\ r1.live_adapter # "None" /\ ~heatmap.raises
                   THEN heatmap.value
                   ELSE generate_sector_heatmap(r1.selected_symbol)]

PlaceholderCandidates ==
    << [symbol |-> "CANDIDATE_A", sector |-> "TECH", projected_efficiency |-> 70],
       [symbol |-> "CANDIDATE_B", sector |-> "HEALTHCARE", projected_efficiency |-> 65] >>

\* get_candidates; candidates is the adapter's outcome
get_candidates(r, e, candidates) ==
    LET r1 == ensure_initialized(r, e)
        is_open == Get(r1.market_status, "is_open", FALSE)
    IN [router |-> r1,
        result |-> IF is_open /\ r1.live_adapter # "None"
                      /\ ~candidates.raises /\ candidates.value # << >>
                   THEN candidates.value
                   ELSE PlaceholderCandidates]

(***************************************************************************)
(* The router specification: one action per operation                      *)
(***************************************************************************)
\* the router has resolved the market status and holds it as open
IsOpen(r) == r.initialized /\ Get(r.market_status, "is_open", FALSE)

SymbolInputs == {"SPY", "QQQ", "IWM", "NVDA", ""}
TimeRangeInputs == {"1M", "4M", "6M", "1Y", "2Y", ""}

NoResponse == [op |-> "none"]
GuardIdle == proposed_actions = << >> /\ risk_context = PyNone /\ guard_result = PyNone
ModeIdle == market_mode = PyNone /\ host = PyNone /\ mode_resp = PyNone
HistIdle == service = PyNone /\ hist_resp = PyNone /\ hist_kept = PyNone
AppIdle == requests = PyNone /\ backend = PyNone /\ api_resp = PyNone

Init ==
    /\ router = DataRouter
    /\ now = 0
    /\ market_open \in BOOLEAN
    /\ resp = NoResponse
    /\ GuardIdle
    /\ ModeIdle
    /\ HistIdle
    /\ AppIdle

\* time passes between two requests
Tick ==
    /\ now + TickStep <= MaxTime
    /\ now' = now + TickStep
    /\ UNCHANGED <<appVars, router, market_open, resp, guardVars, modeVars, histVars>>

\* the market opens or closes
MarketChange ==
    /\ market_open' = ~market_open
    /\ UNCHANGED <<appVars, router, now, resp, guardVars, modeVars, histVars>>

\* GET /status -> get_routing_config()
GetRoutingConfig ==
    \E e \in Envs :
        LET c == get_routing_config(router, e)
        IN /\ router' = c.router
           /\ resp' = [op |-> "get_routing_config", raised |-> "None",
                       http |-> 200, result |-> c.config,
                       before |-> router, t |-> e.t, resolver |-> e.status]
           /\ UNCHANGED <<appVars, now, market_open, guardVars, modeVars, histVars>>

\* POST /set-symbol -> router.set_symbol(symbol)
SetSymbol ==
    \E e \in Envs, symbol \in SymbolInputs :
        IF symbol = ""
        THEN /\ resp' = [op |-> "set_symbol", arg |-> symbol, raised |-> "None",
                         http |-> 400, result |-> PyNone,
                         before |-> router, open_at_call |-> FALSE, t |-> now]
             /\ UNCHANGED <<appVars, router, now, market_open, guardVars, modeVars, histVars>>
        ELSE LET c == set_symbol(router, symbol, e)
             IN /\ router' = c.router
                /\ resp' = [op |-> "set_symbol", arg |-> symbol, raised |-> c.raised,
                            http |-> IF c.raised = "ValueError" THEN 400 ELSE 200,
                            result |-> c.config,
                            before |-> router,
                            open_at_call |-> IF router.initialized THEN IsOpen(router)
                                             ELSE e.status.is_open,
                            t |-> e.t]
                /\ UNCHANGED <<appVars, now, market_open, guardVars, modeVars, histVars>>

\* POST /set-time-range -> router.set_time_range(time_range)
SetTimeRange ==
    \E e \in Envs, time_range \in TimeRangeInputs :
        IF time_range = ""
        THEN /\ resp' = [op |-> "set_time_range", arg |-> time_range, raised |-> "None",
                         http |-> 400, result |-> PyNone,
                         before |-> router, open_at_call |-> FALSE, t |-> now]
             /\ UNCHANGED <<appVars, router, now, market_open, guardVars, modeVars, histVars>>
        ELSE LET c == set_time_range(router, time_range, e)
             IN /\ router' = c.router
                /\ resp' = [op |-> "set_time_range", arg |-> time_range, raised |-> c.raised,
                            http |-> IF c.raised = "ValueError" THEN 400 ELSE 200,
                            result |-> c.config,
                            before |-> router,
                            open_at_call |-> IF router.initialized THEN IsOpen(router)
                                             ELSE e.status.is_open,
                            t |-> e.t]
                /\ UNCHANGED <<appVars, now, market_open, guardVars, modeVars, histVars>>

\* router.get_market_data()
GetMarketData ==
    \E e \in Envs, candles \in SeqOutcomes(LiveCandle), headlines_raise \in BOOLEAN :
        LET c == get_market_data(router, e, candles, headlines_raise)
        IN /\ router' = c.router
           /\ resp' = [op |-> "get_market_data", raised |-> "None", result |-> c.result,
                       adapter |-> candles, before |-> router, t |-> e.t]
           /\ UNCHANGED <<appVars, now, market_open, guardVars, modeVars, histVars>>

\* router.get_portfolio_data()
GetPortfolioData ==
    \E e \in Envs, portfolio \in RecOutcomes(LivePortfolio) :
        LET c == get_portfolio_data(router, e, portfolio)
        IN /\ router' = c.router
           /\ resp' = [op |-> "get_portfolio_data", raised |-> "None", result |-> c.result,
                       adapter |-> portfolio, before |-> router, t |-> e.t]
           /\ UNCHANGED <<appVars, now, market_open, guardVars, modeVars, histVars>>

\* router.get_sector_heatmap()
GetSectorHeatmap ==
    \E e \in Envs, heatmap \in RecOutcomes(LiveHeatmap) :
        LET c == get_sector_heatmap(router, e, heatmap)
        IN /\ router' = c.router
           /\ resp' = [op |-> "get_sector_heatmap", raised |-> "None", result |-> c.result,
                       adapter |-> heatmap, before |-> router, t |-> e.t]
           /\ UNCHANGED <<appVars, now, market_open, guardVars, modeVars, histVars>>

\* router.get_candidates()
GetCandidates ==
    \E e \in Envs, candidates \in SeqOutcomes(LiveCandidate) :
        LET c == get_candidates(router, e, candidates)
        IN /\ router' = c.router
           /\ resp' = [op |-> "get_candidates", raised |-> "None", result |-> c.result,
                       adapter |-> candidates, before |-> router, t |-> e.t]
           /\ UNCHANGED <<appVars, now, market_open, guardVars, modeVars, histVars>>

\* a reset that keeps the singleton
reset_router_keep_instance(r) == r

\* reset_router(): the singleton is dropped; the next call constructs a
\* fresh DataRouter and initializes it
reset_router(r) == DataRouter

ResetRouter ==
    /\ router' = reset_router(router)
    /\ resp' = [op |-> "reset_router", raised |-> "None", result |-> PyNone]
    /\ UNCHANGED <<appVars, now, market_open, guardVars, modeVars, histVars>>

\* POST /reset -> reset_router(); get_routing_config()
PostReset ==
    \E e \in Envs :
        LET c == get_routing_config(reset_router(router), e)
        IN /\ router' = c.router
           /\ resp' = [op |-> "post_reset", raised |-> "None", http |-> 200,
                       result |-> c.config, before |-> router, t |-> e.t,
                       resolver |-> e.status]
           /\ UNCHANGED <<appVars, now, market_open, guardVars, modeVars, histVars>>

Next ==
    \/ Tick
    \/ MarketChange
    \/ GetRoutingConfig
    \/ SetSymbol
    \/ SetTimeRange
    \/ GetMarketData
    \/ GetPortfolioData
    \/ GetSectorHeatmap
    \/ GetCandidates
    \/ ResetRouter
    \/ PostReset

Spec == Init /\ [][Next]_vars

(***************************************************************************)
(* Properties of the router                                                *)
(***************************************************************************)
\* every candle of every cache file
CachedCandles == UNION {{cache_files[sym][i] : i \in 1..Len(cache_files[sym])} : sym \in DOMAIN cache_files}

IsConfigResponse ==
    /\ resp.op \in {"get_routing_config", "set_symbol", "set_time_range"}
    /\ resp.raised = "None"
    /\ ~IsNone(resp.result)

\* C1: a get_market_data response labelled LIVE carries the candles the live
\* adapter returned in that call or no candles, and never a cached candle.
C1_LiveNeverCarriesCache ==
    (resp.op = "get_market_data" /\ resp.result.data_mode = DATA_MODE_LIVE) =>
        /\ \/ resp.result.candles = << >>
           \/ ~resp.adapter.raises /\ resp.result.candles = resp.adapter.value
        /\ \A i \in 1..Len(resp.result.candles) : resp.result.candles[i] \notin CachedCandles

C1_Witness ==
    /\ resp.op = "get_market_data"
    /\ resp.result.data_mode = DATA_MODE_LIVE
    /\ resp.result.status = "success"
    /\ resp.result.candles = <<LiveCandle>>
    /\ router.selected_symbol = "QQQ"

\* C2: with the market reported OPEN and the adapter construction failed,
\* the router is in LIVE mode with the "(Connection Error)" source label and
\* get_market_data answers status error, LIVE, that label, no candles.
C2_AdapterFailureStaysLive ==
    (IsOpen(router) /\ router.live_adapter = "None") =>
        /\ router.data_mode = DATA_MODE_LIVE
        /\ router.data_source = DATA_SOURCE_CONNECTION_ERROR
        /\ resp.op = "get_market_data" =>
              /\ resp.result.status = "error"
              /\ resp.result.data_mode = DATA_MODE_LIVE
              /\ resp.result.data_source = DATA_SOURCE_CONNECTION_ERROR
              /\ resp.result.candles = << >>

C2_Witness ==
    /\ IsOpen(router)
    /\ router.live_adapter = "None"
    /\ resp.op = "get_market_data"
    /\ resp.result.status = "error"

ServiceHeatmaps == {generate_sector_heatmap(sym) : sym \in SymbolInputs}

\* C3: while the router is in LIVE mode no data operation returns data made
\* by the HistoricalDataService (cached candles, generated positions, the
\* generated sector heatmap).
C3_LiveNeverServesHistorical ==
    IsOpen(router) =>
        /\ resp.op = "get_market_data" =>
              \A i \in 1..Len(resp.result.candles) : resp.result.candles[i] \notin CachedCandles
        /\ resp.op = "get_portfolio_data" =>
              \/ resp.result.status = "error" /\ resp.result.positions = << >>
              \/ ~resp.adapter.raises /\ resp.result.portfolio = resp.adapter.value
        /\ resp.op = "get_sector_heatmap" => resp.result \notin ServiceHeatmaps

\* C4: in every returned RoutingConfig, HISTORICAL <=> symbol_selector, both
\* selectors agree, and LIVE has no time ranges and a null selected range.
C4_ConfigInvariant ==
    IsConfigResponse =>
        LET c == resp.result
        IN /\ (c.data_mode = DATA_MODE_HISTORICAL) <=> c.controls_enabled.symbol_selector
           /\ c.controls_enabled.time_range_selector = c.controls_enabled.symbol_selector
           /\ c.data_mode \in {DATA_MODE_LIVE, DATA_MODE_HISTORICAL}
           /\ c.data_mode = DATA_MODE_LIVE =>
                 c.available_time_ranges = {} /\ c.selected_time_range = "None"

C4_Witness ==
    /\ IsConfigResponse
    /\ resp.result.data_mode = DATA_MODE_LIVE
    /\ resp.result.selected_time_range = "None"
    /\ router.selected_time_range = "1M"

\* The response of a set call keeps the router as it was when the call was
\* made (before) and the market status the call read (open_at_call); a call
\* with an empty argument is answered by the API layer and never reaches
\* the router.
IsSetCall == resp.op \in {"set_symbol", "set_time_range"} /\ resp.arg # ""

\* C5: a set_symbol or set_time_range call made while is_open is true fails
\* with ValueError (HTTP 400) and leaves both selected fields as they were.
C5_SelectionDisabledWhenOpen ==
    (IsSetCall /\ resp.open_at_call) =>
        /\ resp.raised = "ValueError"
        /\ resp.http = 400
        /\ router.selected_symbol = resp.before.selected_symbol
        /\ router.selected_time_range = resp.before.selected_time_range

C5_Witness ==
    /\ resp.op = "set_symbol"
    /\ resp.arg = "QQQ"
    /\ resp.open_at_call
    /\ resp.raised = "ValueError"
    /\ resp.http = 400
    /\ resp.before.initialized
    /\ router.selected_symbol = "SPY"

ArgAvailable ==
    IF resp.op = "set_symbol" THEN InSeq(resp.arg, get_available_symbols)
    ELSE resp.arg \in get_time_ranges

\* C6: in HISTORICAL mode a set call with a value outside the available set
\* fails with ValueError and changes nothing in the router; a set call
\* changes the selection only when it succeeds, and then only its own field.
C6_SelectionChangesOnlyOnSuccess ==
    IsSetCall =>
        /\ (resp.before.initialized /\ ~resp.open_at_call /\ ~ArgAvailable) =>
              (resp.raised = "ValueError" /\ resp.http = 400 /\ router = resp.before)
        /\ resp.raised = "ValueError" =>
              /\ router.selected_symbol = resp.before.selected_symbol
              /\ router.selected_time_range = resp.before.selected_time_range
        /\ resp.raised = "None" =>
              IF resp.op = "set_symbol"
              THEN /\ router.selected_symbol = resp.arg
                   /\ router.selected_time_range = resp.before.selected_time_range
              ELSE /\ router.selected_time_range = resp.arg
                   /\ router.selected_symbol = resp.before.selected_symbol

C6_Witness ==
    /\ resp.op = "set_time_range"
    /\ resp.arg = "2Y"
    /\ resp.raised = "ValueError"
    /\ ~resp.open_at_call
    /\ resp.before.initialized
    /\ router.selected_symbol = "QQQ"
    /\ router.selected_time_range = "1M"

\* The response of every router call keeps the router as it was when the
\* call was made (before) and the clock the call read (t).
DataOps == {"get_market_data", "get_portfolio_data", "get_sector_heatmap", "get_candidates"}
IsRouterCall == resp.op \in DataOps \cup {"get_routing_config", "set_symbol", "set_time_range"}

\* C16: get_routing_config re-resolves the status when the cached one is
\* more than 60 seconds old at the call and leaves it alone otherwise; the
\* config it returns is the one of a status resolved at most 60 seconds
\* before the call.
C16_ConfigStatusFresh ==
    resp.op = "get_routing_config" =>
        /\ router.last_status_check <= resp.t
        /\ resp.t - router.last_status_check <= 60
        /\ resp.result.is_open = router.market_status.is_open
        /\ resp.result.market_status = router.market_status.label
        /\ resp.result.data_mode = router.data_mode
        /\ resp.before.initialized =>
              IF resp.t - resp.before.last_status_check > 60
              THEN router.last_status_check = resp.t
              ELSE router = resp.before

C16_Witness ==
    /\ resp.op = "get_routing_config"
    /\ resp.before.initialized
    /\ resp.before.data_mode = DATA_MODE_HISTORICAL
    /\ resp.t - resp.before.last_status_check > 60
    /\ router.last_status_check = resp.t
    /\ resp.result.data_mode = DATA_MODE_LIVE

\* seconds between the resolution of the status a call routed on and the call
DecisionAge == IF resp.before.initialized THEN resp.t - resp.before.last_status_check ELSE 0

\* C17: every routing decision (the branch of the four data operations, the
\* is_open check of the two set operations) is made on a market status
\* resolved at most 60 seconds before the call.
C17_DecisionsOnFreshStatus ==
    (resp.op \in DataOps \/ IsSetCall) => DecisionAge <= 60

\* C18: on an initialized router the four data operations change nothing,
\* and data_mode, the cached status and the adapter reference change only
\* in a call that refreshes a status more than 60 seconds old.
C18_ModeChangesOnlyOnRefresh ==
    (IsRouterCall /\ resp.before.initialized) =>
        /\ resp.op \in DataOps => router = resp.before
        /\ (\/ router.data_mode # resp.before.data_mode
            \/ router.market_status # resp.before.market_status
            \/ router.live_adapter # resp.before.live_adapter) =>
              /\ resp.op \notin DataOps
              /\ resp.t - resp.before.last_status_check > 60
              /\ router.last_status_check = resp.t

C18_Witness ==
    /\ resp.op = "get_market_data"
    /\ resp.before.initialized
    /\ resp.before.data_mode = DATA_MODE_LIVE
    /\ resp.before.live_adapter = "AlpacaAdapter"
    /\ ~market_open
    /\ resp.t - resp.before.last_status_check > 60
    /\ router = resp.before
    /\ resp.result.data_mode = DATA_MODE_LIVE

\* C19: on an initialized router data_mode is LIVE exactly when the cached
\* status has is_open true, and in HISTORICAL mode the adapter reference is
\* null.
C19_ModeMatchesStatus ==
    router.initialized =>
        /\ router.data_mode \in {DATA_MODE_LIVE, DATA_MODE_HISTORICAL}
        /\ (router.data_mode = DATA_MODE_LIVE) <=> router.market_status.is_open
        /\ router.data_mode = DATA_MODE_HISTORICAL => router.live_adapter = "None"

C19_Witness ==
    /\ resp.op = "get_routing_config"
    /\ resp.before.initialized
    /\ resp.before.data_mode = DATA_MODE_LIVE
    /\ resp.before.live_adapter = "AlpacaAdapter"
    /\ router.data_mode = DATA_MODE_HISTORICAL
    /\ router.live_adapter = "None"
    /\ ~router.market_status.is_open

\* C20: in LIVE mode get_candidates returns the adapter's list when that
\* list is not empty, and otherwise a result that is told apart from the
\* bare placeholder pair; in HISTORICAL mode it returns the placeholder pair.
C20_PlaceholderFlaggedInLive ==
    resp.op = "get_candidates" =>
        IF IsOpen(router)
        THEN IF router.live_adapter # "None" /\ ~resp.adapter.raises /\ resp.adapter.value # << >>
             THEN resp.result = resp.adapter.value
             ELSE resp.result # PlaceholderCandidates
        ELSE resp.result = PlaceholderCandidates

C32_SelectionPersists ==
    /\ resp.op \in DataOps \cup {"get_routing_config"} =>
          /\ router.selected_symbol = resp.before.selected_symbol
          /\ router.selected_time_range = resp.before.selected_time_range
    /\ (resp.op = "get_routing_config" /\ ~resp.result.is_open) =>
          /\ resp.result.selected_symbol = resp.before.selected_symbol
          /\ resp.result.selected_time_range = resp.before.selected_time_range
    /\ (resp.op = "get_market_data" /\ resp.result.data_mode = DATA_MODE_HISTORICAL) =>
          LET sym == resp.before.selected_symbol
              key == resp.before.selected_time_range
              last == cache_files[sym][Len(cache_files[sym])].timestamp \div 24
          IN /\ resp.result.symbol = sym
             /\ resp.result.time_range = key
             /\ resp.result.status = "success" =>
                /\ resp.result.metadata.symbol = sym
                /\ resp.result.metadata.time_range = key
             /\ resp.result.candles =
                   SelectSeq(cache_files[sym],
                             LAMBDA c : c.timestamp \div 24 >= last - 30 * TIME_RANGES[key])
    /\ (resp.op = "get_portfolio_data" /\ ~IsOpen(router)) =>
          /\ resp.result.status = "success" =>
             /\ resp.result.metadata.symbol = resp.before.selected_symbol
             /\ resp.result.metadata.time_range = resp.before.selected_time_range
          /\ \A i \in 1..Len(resp.result.positions) :
                resp.result.positions[i].symbol = resp.before.selected_symbol

\* market data served for a selection made by earlier calls
C32_Witness ==
    /\ resp.op = "get_market_data"
    /\ resp.before.selected_symbol = "QQQ"
    /\ resp.before.selected_time_range = "1M"
    /\ resp.result.data_mode = DATA_MODE_HISTORICAL
    /\ resp.result.symbol = "QQQ"
    /\ resp.result.candles = <<Candle(390, 22)>>

\* C37: a set call that returns a config returns one of a closed market:
\* is_open false, data_mode HISTORICAL, the selected field equal to the
\* requested value.
C37_SetReturnsHistoricalConfig ==
    (IsSetCall /\ resp.raised = "None") =>
        /\ ~resp.result.is_open
        /\ resp.result.data_mode = DATA_MODE_HISTORICAL
        /\ IF resp.op = "set_symbol"
           THEN resp.result.selected_symbol = resp.arg
           ELSE resp.result.selected_time_range = resp.arg

\* C39: the selected time range is always one of 1M, 4M, 6M, 1Y, and so is
\* the key of every historical load the router makes.
C39_TimeRangeAlwaysValid ==
    /\ router.selected_time_range \in {"1M", "4M", "6M", "1Y"}
    /\ (resp.op = "get_market_data" /\ resp.result.data_mode = DATA_MODE_HISTORICAL) =>
          /\ resp.result.time_range \in {"1M", "4M", "6M", "1Y"}
          /\ resp.result.metadata.time_range \in {"1M", "4M", "6M", "1Y"}

\* a rejected key leaves a selection made earlier in place
C39_Witness ==
    /\ resp.op = "set_time_range"
    /\ resp.arg = "2Y"
    /\ resp.raised = "ValueError"
    /\ ~resp.open_at_call
    /\ router.selected_time_range = "1M"

(***************************************************************************)
(* RiskGuardrails (risk_guardrails.py)                                     *)
(***************************************************************************)
MaxActions == 2     \* longest list of proposed actions

\* a Python value that is neither None nor a dict (a string, say)
NotADict == [py_nondict |-> "str"]
EmptyDict == [k \in {} |-> ""]
IsDict(v) == "py_nondict" \notin DOMAIN v /\ ~IsNone(v)
\* bool(v)
Truthy(v) == IF IsDict(v) THEN DOMAIN v # {} ELSE ~IsNone(v)

\* a Python number, and a value that is not one (a string, say); None is
\* PyNone
Float(n) == [float |-> n]
NotANumber == [py_nonnum |-> "str"]
IsNumber(v) == "float" \in DOMAIN v

REASON_MISSING_CONTEXT == "Safety check failed: missing risk context"
REASON_CONCENTRATION == "Sector concentration breach"
REASON_CASH == "Insufficient cash reserve"
REASON_VOLATILITY == "Aggressive action blocked during expanding volatility"

\* the action lists of the three rules
increasing_actions_short ==
    {"ALLOCATE", "ALLOCATE_HIGH", "ALLOCATE_AGGRESSIVE", "SCALE_UP", "DOUBLE_DOWN"}
increasing_actions ==
    {"ALLOCATE", "ALLOCATE_HIGH", "ALLOCATE_AGGRESSIVE",
     "SCALE_UP", "DOUBLE_DOWN", "ADD_POSITION"}
approaching_aggressive_actions_wide ==
    {"ALLOCATE_HIGH", "ALLOCATE_AGGRESSIVE", "SCALE_UP", "DOUBLE_DOWN", "REDUCE"}
approaching_aggressive_actions ==
    {"ALLOCATE_HIGH", "ALLOCATE_AGGRESSIVE", "SCALE_UP", "DOUBLE_DOWN"}
capital_requiring_actions_short ==
    {"ALLOCATE", "ALLOCATE_HIGH", "ALLOCATE_AGGRESSIVE",
     "SCALE_UP", "ADD_POSITION", "DOUBLE_DOWN"}
capital_requiring_actions ==
    {"ALLOCATE", "ALLOCATE_HIGH", "ALLOCATE_AGGRESSIVE",
     "ALLOCATE_CAPPED", "ALLOCATE_CAUTIOUS",
     "SCALE_UP", "ADD_POSITION", "DOUBLE_DOWN"}
aggressive_actions_no_free_capital ==
    {"ALLOCATE_AGGRESSIVE", "SCALE_UP", "DOUBLE_DOWN"}
aggressive_actions ==
    {"ALLOCATE_AGGRESSIVE", "SCALE_UP", "DOUBLE_DOWN", "FREE_CAPITAL"}

\* lines 80: `not risk_context or not isinstance(risk_context, dict)`
context_missing_none_only(risk_ctx) == IsNone(risk_ctx)
context_missing(risk_ctx) == ~Truthy(risk_ctx) \/ ~IsDict(risk_ctx)

\* lines 91-99: the risk signals with their defaults
risk_signals(risk_ctx) ==
    LET concentration == Get(risk_ctx, "concentration", EmptyDict)
    IN [is_concentrated |-> Get(concentration, "is_concentrated", FALSE),
        dominant_sector |-> Get(concentration, "dominant_sector", "UNKNOWN"),
        severity |-> Get(concentration, "severity", "NONE"),
        cash_available |-> Get(risk_ctx, "cash_available", Float(0)),
        minimum_reserve |-> Get(risk_ctx, "minimum_reserve", Float(0)),
        volatility_state |-> Get(risk_ctx, "volatility_state", "UNKNOWN")]

\* rule 1 with the APPROACHING check applied to every sector
concentration_reason_any_sector(action_type, sector, sig) ==
    LET r1 == IF sig.is_concentrated /\ sector = sig.dominant_sector
                 /\ action_type \in increasing_actions
              THEN REASON_CONCENTRATION ELSE "None"
    IN IF sig.severity = "APPROACHING"
          /\ action_type \in approaching_aggressive_actions
       THEN REASON_CONCENTRATION ELSE r1

\* lines 120-137: rule 1, block_reason after the two concentration checks
concentration_reason(action_type, sector, sig) ==
    LET r1 == IF sig.is_concentrated /\ sector = sig.dominant_sector
                 /\ action_type \in increasing_actions
              THEN REASON_CONCENTRATION ELSE "None"
    IN IF sig.severity = "APPROACHING" /\ sector = sig.dominant_sector
          /\ action_type \in approaching_aggressive_actions
       THEN REASON_CONCENTRATION ELSE r1

\* line 143: `cash_available < minimum_reserve` raises TypeError when a
\* number meets None or a string (two strings would compare as text; the
\* inputs never pair two non-numbers)
comparison_raises(sig) == ~IsNumber(sig.cash_available) \/ ~IsNumber(sig.minimum_reserve)

\* the three rules with the first matching rule keeping its reason
block_reason_first_wins(action, sig) ==
    LET action_type == Get(action, "action", "UNKNOWN")
        sector == Get(action, "sector", "UNKNOWN")
        r1 == concentration_reason(action_type, sector, sig)
        r2 == IF r1 = "None" /\ sig.cash_available.float < sig.minimum_reserve.float
                 /\ action_type \in capital_requiring_actions
              THEN REASON_CASH ELSE r1
    IN IF r2 = "None" /\ sig.volatility_state = "EXPANDING"
          /\ action_type \in aggressive_actions
       THEN REASON_VOLATILITY ELSE r2

\* lines 109-164: block_reason of one action ("None" for None)
block_reason(action, sig) ==
    LET action_type == Get(action, "action", "UNKNOWN")
        sector == Get(action, "sector", "UNKNOWN")
        r1 == concentration_reason(action_type, sector, sig)
        r2 == IF sig.cash_available.float < sig.minimum_reserve.float
                 /\ action_type \in capital_requiring_actions
              THEN REASON_CASH ELSE r1
    IN IF sig.volatility_state = "EXPANDING" /\ action_type \in aggressive_actions
       THEN REASON_VOLATILITY ELSE r2

\* a decision step that also keeps a blocked action in the allowed list
decide_keep_blocked(acc, action, reason) ==
    IF reason # "None"
    THEN [acc EXCEPT !.blocked_actions = Append(@, With(action, "reason", reason)),
                     !.allowed_actions = Append(@, action)]
    ELSE [acc EXCEPT !.allowed_actions = Append(@, action)]

\* lines 169-174: append a reason-annotated copy to blocked, or the action
\* itself to allowed
decide(acc, action, reason) ==
    IF reason # "None"
    THEN [acc EXCEPT !.blocked_actions = Append(@, With(action, "reason", reason))]
    ELSE [acc EXCEPT !.allowed_actions = Append(@, action)]

\* lines 104-179: the loop over proposed_actions from index i on; an entry
\* that is not a dict has no .get and the call raises, and so does the
\* comparison of line 143 on a cash value that is not a number
RECURSIVE filter_actions(_, _, _, _)
filter_actions(actions, sig, i, acc) ==
    IF i > Len(actions) THEN acc
    ELSE IF ~IsDict(actions[i])
    THEN [raised |-> "AttributeError", allowed_actions |-> << >>, blocked_actions |-> << >>,
          proposed_after |-> actions]
    ELSE IF comparison_raises(sig)
    THEN [raised |-> "TypeError", allowed_actions |-> << >>, blocked_actions |-> << >>,
          proposed_after |-> actions]
    ELSE filter_actions(actions, sig, i + 1,
                        decide(acc, actions[i], block_reason(actions[i], sig)))

\* lines 82-88: every action blocked; {**action} of a non-mapping raises
block_all(actions) ==
    IF \E i \in 1..Len(actions) : ~IsDict(actions[i])
    THEN [raised |-> "TypeError", allowed_actions |-> << >>, blocked_actions |-> << >>,
          proposed_after |-> actions]
    ELSE [raised |-> "None", allowed_actions |-> << >>,
          blocked_actions |-> [i \in 1..Len(actions) |->
                                  With(actions[i], "reason", REASON_MISSING_CONTEXT)],
          proposed_after |-> actions]

\* apply_risk_guardrails(proposed_actions, risk_context).  raised names the
\* exception the call ends with ("None" when it returns); proposed_after is
\* the caller's list as the call leaves it.
apply_risk_guardrails(actions, risk_ctx) ==
    IF actions = << >>
    THEN [raised |-> "None", allowed_actions |-> << >>, blocked_actions |-> << >>,
          proposed_after |-> actions]
    ELSE IF context_missing(risk_ctx) THEN block_all(actions)
    ELSE IF ~IsDict(Get(risk_ctx, "concentration", EmptyDict))
    THEN [raised |-> "AttributeError", allowed_actions |-> << >>, blocked_actions |-> << >>,
          proposed_after |-> actions]
    ELSE filter_actions(actions, risk_signals(risk_ctx), 1,
                        [raised |-> "None", allowed_actions |-> << >>,
                         blocked_actions |-> << >>, proposed_after |-> actions])

(***************************************************************************)
(* Inputs of the guardrails                                                *)
(***************************************************************************)
ActionVerbs ==
    {"ALLOCATE", "ALLOCATE_HIGH", "ALLOCATE_AGGRESSIVE", "ALLOCATE_CAPPED",
     "ALLOCATE_CAUTIOUS", "SCALE_UP", "DOUBLE_DOWN", "ADD_POSITION",
     "FREE_CAPITAL", "REDUCE"}

Action(target, verb, sector) ==
    [target |-> target, type |-> "CANDIDATE", action |-> verb, sector |-> sector]

\* well-formed actions, actions lacking fields, an action that already
\* carries a reason, and an entry that is not a record
ActionUniverse ==
    {Action("T", v, sec) : v \in ActionVerbs, sec \in {"TECH", "BIOTECH"}}
      \cup {[incomplete |-> "data"],
            [target |-> "X", action |-> "BUY"],
            [target |-> "X", action |-> "SCALE_UP"],
            With(Action("T", "DOUBLE_DOWN", "TECH"), "reason", "engine note"),
            NotADict}

\* the actions that accompany the one under study in a longer list
Companions ==
    {Action("C", "ALLOCATE", "TECH"), Action("C", "SCALE_UP", "BIOTECH"),
     Action("C", "REDUCE", "TECH"), Action("T", "FREE_CAPITAL", "TECH")}

\* lists of at most MaxActions entries, at most one of them outside Companions
ActionLists ==
    {<< >>} \cup
    UNION {{[i \in 1..n |-> IF i = p THEN a ELSE c[i]] :
               p \in 1..n, a \in ActionUniverse, c \in [1..n -> Companions]} :
           n \in 1..MaxActions}

Concentrations ==
    {[is_concentrated |-> c, dominant_sector |-> "TECH", severity |-> sv] :
        c \in BOOLEAN, sv \in {"BREACH", "APPROACHING", "NONE"}}
      \cup {[is_concentrated |-> FALSE], [is_concentrated |-> TRUE],
            [severity |-> "APPROACHING"], NotADict, PyNone}

\* below, at and above the reserve; either field or both missing; a value
\* that is a string or None
CashPairs ==
    {("cash_available" :> Float(30000)) @@ ("minimum_reserve" :> Float(50000)),
     ("cash_available" :> Float(50000)) @@ ("minimum_reserve" :> Float(50000)),
     ("cash_available" :> Float(100000)) @@ ("minimum_reserve" :> Float(50000)),
     ("cash_available" :> Float(30000)),
     ("minimum_reserve" :> Float(50000)),
     ("cash_available" :> NotANumber) @@ ("minimum_reserve" :> Float(50000)),
     ("cash_available" :> Float(30000)) @@ ("minimum_reserve" :> PyNone),
     EmptyDict}

Volatilities ==
    {("volatility_state" :> "EXPANDING"), ("volatility_state" :> "STABLE"), EmptyDict}

\* None, {}, a non-dict, and dicts with every field present or missing
RiskContexts ==
    {PyNone, EmptyDict, NotADict}
      \cup {c @@ cash @@ vol :
              c \in {("concentration" :> x) : x \in Concentrations} \cup {EmptyDict},
              cash \in CashPairs, vol \in Volatilities}

(***************************************************************************)
(* The guardrail specification: the function applied to bounded inputs     *)
(***************************************************************************)
GuardInit ==
    /\ router = DataRouter
    /\ now = 0
    /\ market_open = FALSE
    /\ resp = NoResponse
    /\ proposed_actions \in ActionLists
    /\ risk_context \in RiskContexts
    /\ guard_result = PyNone
    /\ ModeIdle
    /\ HistIdle
    /\ AppIdle

ApplyRiskGuardrails ==
    /\ guard_result = PyNone
    /\ guard_result' = apply_risk_guardrails(proposed_actions, risk_context)
    /\ UNCHANGED <<appVars, routerVars, proposed_actions, risk_context, modeVars, histVars>>

GuardNext == ApplyRiskGuardrails

GuardSpec == GuardInit /\ [][GuardNext]_vars

(***************************************************************************)
(* Properties of the guardrails                                            *)
(***************************************************************************)
GuardReturned == ~IsNone(guard_result) /\ guard_result.raised = "None"
AllRecords(actions) == \A i \in 1..Len(actions) : IsDict(actions[i])

\* C7: with a non-empty list of action records and a risk context that is
\* None, empty or not a record, nothing is allowed and every input action
\* is in blocked_actions, in order, with the missing-risk-context reason.
C7_FailClosed ==
    (~IsNone(guard_result) /\ proposed_actions # << >> /\ AllRecords(proposed_actions)
        /\ (IsNone(risk_context) \/ risk_context = EmptyDict \/ ~IsDict(risk_context))) =>
        /\ guard_result.raised = "None"
        /\ guard_result.allowed_actions = << >>
        /\ Len(guard_result.blocked_actions) = Len(proposed_actions)
        /\ \A i \in 1..Len(proposed_actions) :
              /\ guard_result.blocked_actions[i].reason = "Safety check failed: missing risk context"
              /\ \A k \in DOMAIN proposed_actions[i] \ {"reason"} :
                    guard_result.blocked_actions[i][k] = proposed_actions[i][k]

C7_Witness ==
    /\ GuardReturned
    /\ risk_context = EmptyDict
    /\ Len(proposed_actions) = 2
    /\ proposed_actions[1] = Action("C", "REDUCE", "TECH")
    /\ Len(guard_result.blocked_actions) = 2
    /\ guard_result.allowed_actions = << >>

\* b is a copy of a that differs only by its non-empty reason string
AnnotatedCopy(b, a) ==
    /\ DOMAIN b = DOMAIN a \cup {"reason"}
    /\ \A k \in DOMAIN a \ {"reason"} : b[k] = a[k]
    /\ b.reason \notin {"", "None"}

\* C8: the result is a reason-annotated partition of the input: some set K
\* of positions is blocked, the others are allowed, each list keeps the
\* input order, allowed entries are unchanged, blocked entries are annotated
\* copies, and the caller's list is left as it was.
C8_Partition ==
    GuardReturned =>
        /\ guard_result.proposed_after = proposed_actions
        /\ \E K \in SUBSET (1..Len(proposed_actions)) :
              LET kept == SelectSeqIdx(proposed_actions, (1..Len(proposed_actions)) \ K, 1)
                  cut == SelectSeqIdx(proposed_actions, K, 1)
              IN /\ guard_result.allowed_actions = kept
                 /\ Len(guard_result.blocked_actions) = Len(cut)
                 /\ \A j \in 1..Len(cut) :
                       AnnotatedCopy(guard_result.blocked_actions[j], cut[j])

C8_Witness ==
    /\ GuardReturned
    /\ Len(proposed_actions) = 2
    /\ Len(guard_result.allowed_actions) = 1
    /\ Len(guard_result.blocked_actions) = 1
    /\ guard_result.blocked_actions[1] =
          With(proposed_actions[1], "reason", "Insufficient cash reserve")
    /\ "reason" \in DOMAIN proposed_actions[1]

\* the outcome of an input action in the result
IsAllowed(a) == InSeq(a, guard_result.allowed_actions)
IsBlockedWith(a, reason) ==
    \E j \in 1..Len(guard_result.blocked_actions) :
        /\ guard_result.blocked_actions[j].reason = reason
        /\ AnnotatedCopy(guard_result.blocked_actions[j], a)
IsBlocked(a) ==
    \E j \in 1..Len(guard_result.blocked_actions) :
        AnnotatedCopy(guard_result.blocked_actions[j], a)

\* the fields of the risk context as the claims name them
Ctx == risk_signals(risk_context)
SectorOfAction(a) == Get(a, "sector", "UNKNOWN")
VerbOf(a) == Get(a, "action", "UNKNOWN")
CashRuleMatches(a) ==
    /\ Ctx.cash_available.float < Ctx.minimum_reserve.float
    /\ VerbOf(a) \in {"ALLOCATE", "ALLOCATE_HIGH", "ALLOCATE_AGGRESSIVE", "ALLOCATE_CAPPED",
                      "ALLOCATE_CAUTIOUS", "SCALE_UP", "ADD_POSITION", "DOUBLE_DOWN"}
VolatilityRuleMatches(a) ==
    /\ Ctx.volatility_state = "EXPANDING"
    /\ VerbOf(a) \in {"ALLOCATE_AGGRESSIVE", "SCALE_UP", "DOUBLE_DOWN", "FREE_CAPITAL"}

\* C9: with is_concentrated true, an action of the dominant sector whose
\* verb increases exposure is blocked, with the concentration reason when
\* neither the cash nor the volatility rule matches it; an action of another
\* sector never gets the concentration reason and is allowed when no other
\* rule matches it.
C9_SectorConcentrationRule ==
    (GuardReturned /\ Ctx.is_concentrated) =>
        \A i \in 1..Len(proposed_actions) :
            LET a == proposed_actions[i]
                increasing == VerbOf(a) \in {"ALLOCATE", "ALLOCATE_HIGH", "ALLOCATE_AGGRESSIVE",
                                             "SCALE_UP", "DOUBLE_DOWN", "ADD_POSITION"}
                others == CashRuleMatches(a) \/ VolatilityRuleMatches(a)
            IN /\ (increasing /\ SectorOfAction(a) = Ctx.dominant_sector) =>
                     /\ IsBlocked(a)
                     /\ ~IsAllowed(a)
                     /\ ~others => IsBlockedWith(a, "Sector concentration breach")
               /\ (increasing /\ SectorOfAction(a) # Ctx.dominant_sector) =>
                     /\ ~IsBlockedWith(a, "Sector concentration breach")
                     /\ ~others => (IsAllowed(a) /\ ~IsBlocked(a))

C9_Witness ==
    /\ GuardReturned
    /\ Ctx.is_concentrated
    /\ Ctx.severity = "BREACH"
    /\ Len(proposed_actions) = 2
    /\ proposed_actions[1] = Action("T", "ADD_POSITION", "TECH")
    /\ proposed_actions[2] = Action("C", "SCALE_UP", "BIOTECH")
    /\ guard_result.blocked_actions =
          <<With(proposed_actions[1], "reason", "Sector concentration breach")>>
    /\ guard_result.allowed_actions = <<proposed_actions[2]>>

\* C10 as stated: the concentration reason is given only when
\* is_concentrated is true and the action's sector is the dominant one.
C10_ConcentrationOnlyWhenConcentrated ==
    GuardReturned =>
        \A j \in 1..Len(guard_result.blocked_actions) :
            guard_result.blocked_actions[j].reason = "Sector concentration breach" =>
                /\ Ctx.is_concentrated
                /\ SectorOfAction(guard_result.blocked_actions[j]) = Ctx.dominant_sector

\* C10 amended: the concentration reason is given only to an action of the
\* dominant sector, and only when is_concentrated is true and its verb
\* increases exposure, or severity is APPROACHING and its verb is in the
\* aggressive subset; the APPROACHING check does not depend on
\* is_concentrated.
C10_ConcentrationReasonOnlyForDominantSector ==
    GuardReturned =>
        \A j \in 1..Len(guard_result.blocked_actions) :
            LET b == guard_result.blocked_actions[j]
            IN b.reason = "Sector concentration breach" =>
                /\ SectorOfAction(b) = Ctx.dominant_sector
                /\ \/ /\ Ctx.is_concentrated
                      /\ VerbOf(b) \in {"ALLOCATE", "ALLOCATE_HIGH", "ALLOCATE_AGGRESSIVE",
                                        "SCALE_UP", "DOUBLE_DOWN", "ADD_POSITION"}
                   \/ /\ Ctx.severity = "APPROACHING"
                      /\ VerbOf(b) \in {"ALLOCATE_HIGH", "ALLOCATE_AGGRESSIVE",
                                        "SCALE_UP", "DOUBLE_DOWN"}

C10_Witness ==
    /\ GuardReturned
    /\ ~Ctx.is_concentrated
    /\ Ctx.severity = "APPROACHING"
    /\ Len(guard_result.blocked_actions) = 1
    /\ guard_result.blocked_actions[1].reason = "Sector concentration breach"
    /\ guard_result.blocked_actions[1].action = "ALLOCATE_HIGH"

\* a risk context that reaches the three rules: a non-empty record
ContextGiven == IsDict(risk_context) /\ risk_context # EmptyDict
ConcentrationRuleMatches(a) ==
    /\ SectorOfAction(a) = Ctx.dominant_sector
    /\ \/ /\ Ctx.is_concentrated
          /\ VerbOf(a) \in {"ALLOCATE", "ALLOCATE_HIGH", "ALLOCATE_AGGRESSIVE",
                            "SCALE_UP", "DOUBLE_DOWN", "ADD_POSITION"}
       \/ /\ Ctx.severity = "APPROACHING"
          /\ VerbOf(a) \in {"ALLOCATE_HIGH", "ALLOCATE_AGGRESSIVE", "SCALE_UP", "DOUBLE_DOWN"}

\* C11: with cash_available < minimum_reserve every action with a
\* capital-requiring verb is in blocked_actions and not in allowed_actions;
\* the cash reason is given only to such a verb and only when
\* cash_available < minimum_reserve.
C11_CashReserveRule ==
    GuardReturned =>
        /\ \A i \in 1..Len(proposed_actions) :
              LET a == proposed_actions[i]
              IN CashRuleMatches(a) => (IsBlocked(a) /\ ~IsAllowed(a))
        /\ \A j \in 1..Len(guard_result.blocked_actions) :
              LET b == guard_result.blocked_actions[j]
              IN b.reason = "Insufficient cash reserve" =>
                    /\ Ctx.cash_available.float < Ctx.minimum_reserve.float
                    /\ VerbOf(b) \in {"ALLOCATE", "ALLOCATE_HIGH", "ALLOCATE_AGGRESSIVE",
                                      "ALLOCATE_CAPPED", "ALLOCATE_CAUTIOUS",
                                      "SCALE_UP", "ADD_POSITION", "DOUBLE_DOWN"}

C11_Witness ==
    /\ GuardReturned
    /\ Ctx.cash_available = Float(30000)
    /\ Ctx.minimum_reserve = Float(50000)
    /\ Ctx.volatility_state = "STABLE"
    /\ ~Ctx.is_concentrated
    /\ proposed_actions = <<Action("T", "ALLOCATE_CAPPED", "BIOTECH"), Action("C", "REDUCE", "TECH")>>
    /\ guard_result.blocked_actions =
          <<With(proposed_actions[1], "reason", "Insufficient cash reserve")>>
    /\ guard_result.allowed_actions = <<proposed_actions[2]>>

\* C12: with volatility_state EXPANDING every action with an aggressive verb
\* (FREE_CAPITAL included) is blocked with the expanding-volatility reason;
\* a plain ALLOCATE that no other rule matches is allowed; the volatility
\* reason is given only to such a verb and only when the state is EXPANDING.
C12_VolatilityRule ==
    (GuardReturned /\ ContextGiven) =>
        /\ \A i \in 1..Len(proposed_actions) :
              LET a == proposed_actions[i]
              IN /\ VolatilityRuleMatches(a) =>
                       /\ IsBlockedWith(a, "Aggressive action blocked during expanding volatility")
                       /\ ~IsAllowed(a)
                 /\ (VerbOf(a) = "ALLOCATE" /\ ~ConcentrationRuleMatches(a) /\ ~CashRuleMatches(a)) =>
                       (IsAllowed(a) /\ ~IsBlocked(a))
        /\ \A j \in 1..Len(guard_result.blocked_actions) :
              LET b == guard_result.blocked_actions[j]
              IN b.reason = "Aggressive action blocked during expanding volatility" =>
                    /\ Ctx.volatility_state = "EXPANDING"
                    /\ VerbOf(b) \in {"ALLOCATE_AGGRESSIVE", "SCALE_UP", "DOUBLE_DOWN", "FREE_CAPITAL"}

C12_Witness ==
    /\ GuardReturned
    /\ Ctx.volatility_state = "EXPANDING"
    /\ Ctx.cash_available = Float(100000)
    /\ ~Ctx.is_concentrated
    /\ proposed_actions = <<Action("C", "ALLOCATE", "TECH"), Action("T", "FREE_CAPITAL", "TECH")>>
    /\ guard_result.allowed_actions = <<proposed_actions[1]>>
    /\ guard_result.blocked_actions =
          <<With(proposed_actions[2], "reason",
                 "Aggressive action blocked during expanding volatility")>>

\* the rules that match an action, and the reason of the last of them in
\* the order concentration, cash, volatility
MatchingRules(a) ==
    (IF ConcentrationRuleMatches(a) THEN {1} ELSE {})
      \cup (IF CashRuleMatches(a) THEN {2} ELSE {})
      \cup (IF VolatilityRuleMatches(a) THEN {3} ELSE {})
ReasonOfRule(n) ==
    CASE n = 1 -> "Sector concentration breach"
      [] n = 2 -> "Insufficient cash reserve"
      [] OTHER -> "Aggressive action blocked during expanding volatility"
LastRule(a) == CHOOSE n \in MatchingRules(a) : \A m \in MatchingRules(a) : m <= n

\* C13: an action matched by more than one rule is not allowed, is blocked
\* once for each of its occurrences in the input, and every blocked copy of
\* it carries the reason of the last matching rule.
C13_LastMatchingRuleWins ==
    (GuardReturned /\ ContextGiven) =>
        \A i \in 1..Len(proposed_actions) :
            LET a == proposed_actions[i]
                copies == {j \in 1..Len(guard_result.blocked_actions) :
                              AnnotatedCopy(guard_result.blocked_actions[j], a)}
                occurrences == {k \in 1..Len(proposed_actions) : proposed_actions[k] = a}
            IN Cardinality(MatchingRules(a)) > 1 =>
                  /\ ~IsAllowed(a)
                  /\ Cardinality(copies) = Cardinality(occurrences)
                  /\ \A j \in copies :
                        guard_result.blocked_actions[j].reason = ReasonOfRule(LastRule(a))

C13_Witness ==
    /\ GuardReturned
    /\ Ctx.is_concentrated
    /\ Ctx.cash_available = Float(30000)
    /\ Ctx.minimum_reserve = Float(50000)
    /\ Ctx.volatility_state = "STABLE"
    /\ proposed_actions = <<Action("T", "ALLOCATE", "TECH"), Action("T", "FREE_CAPITAL", "TECH")>>
    /\ MatchingRules(proposed_actions[1]) = {1, 2}
    /\ guard_result.blocked_actions =
          <<With(proposed_actions[1], "reason", "Insufficient cash reserve")>>

\* C14: apply_risk_guardrails never raises: every call, whatever the
\* actions and the risk context, ends with a result.
C14_NeverRaises ==
    ~IsNone(guard_result) =>
        /\ guard_result.raised = "None"
        /\ Len(guard_result.allowed_actions) + Len(guard_result.blocked_actions)
              = Len(proposed_actions)

\* the four risk fields of a context
RiskFieldMissing ==
    \/ {"concentration", "cash_available", "minimum_reserve", "volatility_state"}
          \ DOMAIN risk_context # {}
    \/ {"is_concentrated", "dominant_sector", "severity"}
          \ DOMAIN Get(risk_context, "concentration", EmptyDict) # {}

\* C15: when a non-empty risk context lacks a risk field, no
\* exposure-increasing or capital-requiring action is allowed.
C15_MissingFieldsBlock ==
    (GuardReturned /\ ContextGiven /\ RiskFieldMissing) =>
        \A i \in 1..Len(guard_result.allowed_actions) :
            VerbOf(guard_result.allowed_actions[i]) \notin
                {"ALLOCATE", "ALLOCATE_HIGH", "ALLOCATE_AGGRESSIVE", "ALLOCATE_CAPPED",
                 "ALLOCATE_CAUTIOUS", "SCALE_UP", "ADD_POSITION", "DOUBLE_DOWN"}

Instant(day, sec) == [day |-> day, sec |-> sec]

\* the instants the wall clock passes through, in order: a Friday around
\* 09:30 and 16:00 at UTC-5, the following Saturday and Monday
Instants ==
    <<Instant(4, 52199), Instant(4, 52200), Instant(4, 75600), Instant(4, 75601),
      Instant(5, 7200), Instant(5, 61200), Instant(0, 7200)>>

\* what `import zoneinfo` / `import pytz` find on the host
TzInstalls == {"zoneinfo", "zoneinfo_without_tzdata", "pytz", "none"}

\* the values of an environment variable: unset, empty, set
EnvValues == {"None", "", "PK"}

\* how the clock step ends: clock.is_open true or false, or an exception
\* (import, network, authentication, parsing all reach the same handler)
ClockOutcomes == {"open", "closed", "APIError"}

NotLoaded == [loaded |-> "no", eastern_tz |-> "None", cached_status |-> PyNone]

\* module body, lines 17-29: only ImportError is handled, so the KeyError
\* subclass that ZoneInfo() raises without time-zone data ends the import
import_market_mode(h) ==
    CASE h.tz = "zoneinfo" ->
            [loaded |-> "yes", eastern_tz |-> "America/New_York", cached_status |-> PyNone]
      [] h.tz = "zoneinfo_without_tzdata" ->
            [loaded |-> "ZoneInfoNotFoundError", eastern_tz |-> "None", cached_status |-> PyNone]
      [] h.tz = "pytz" ->
            [loaded |-> "yes", eastern_tz |-> "America/New_York", cached_status |-> PyNone]
      [] OTHER ->
            [loaded |-> "yes", eastern_tz |-> "None", cached_status |-> PyNone]

\* truth value of os.environ.get(...)
env_truthy(v) == v \notin {"None", ""}

credentials_present_any(h) ==
    env_truthy(h.ALPACA_API_KEY) \/ env_truthy(h.ALPACA_SECRET_KEY)

\* if api_key and secret_key:
credentials_present(h) ==
    env_truthy(h.ALPACA_API_KEY) /\ env_truthy(h.ALPACA_SECRET_KEY)

cache_hit_never(cached) == FALSE

\* if _cached_status: a status dict is never empty
cache_hit(cached) == ~IsNone(cached)

MarketStatus(status, reason, now_utc) ==
    [status |-> status, reason |-> reason, timestamp |-> now_utc]

\* the clock step, lines 47-64: a status, or None when anything was raised
clock_status(h, now_utc) ==
    CASE h.clock = "open" -> MarketStatus("OPEN", "Market is Open", now_utc)
      [] h.clock = "closed" ->
            MarketStatus("CLOSED", "Market is Closed (Alpaca Clock)", now_utc)
      [] OTHER -> PyNone

\* now_utc shifted west by a whole number of hours
shift_hours(now_utc, hours) ==
    IF now_utc.sec >= hours * 3600
    THEN Instant(now_utc.day, now_utc.sec - hours * 3600)
    ELSE Instant((now_utc.day + 6) % 7, now_utc.sec + 86400 - hours * 3600)

\* lines 67-71: the zone's offset (UTC-4 in daylight time), else UTC-5
to_eastern(eastern_tz, h, now_utc) ==
    IF eastern_tz # "None"
    THEN shift_hours(now_utc, IF h.dst THEN 4 ELSE 5)
    ELSE shift_hours(now_utc, 5)

\* datetime.time(9, 30) and datetime.time(16, 0), in seconds of the day
market_open_time == 34200
market_close_time == 57600

after_close_inclusive(sec) == sec >= market_close_time

\* current_time > market_close
after_close(sec) == sec > market_close_time

\* lines 73-103
local_status(now_et, now_utc) ==
    IF now_et.day >= 5 THEN MarketStatus("CLOSED", "Weekend", now_utc)
    ELSE IF now_et.sec < market_open_time THEN MarketStatus("CLOSED", "Pre-market", now_utc)
    ELSE IF after_close(now_et.sec) THEN MarketStatus("CLOSED", "After hours", now_utc)
    ELSE MarketStatus("OPEN", "Market Open (Local Time)", now_utc)

\* get_market_status() of market_mode.py: the module after the call, what it
\* returned, and which of its steps ran
market_mode_get_market_status(m, h) ==
    LET now_utc == Instants[h.clock_idx]
        use_clock == credentials_present(h)
        verdict == IF use_clock THEN clock_status(h, now_utc) ELSE PyNone
        now_et == to_eastern(m.eastern_tz, h, now_utc)
    IN IF cache_hit(m.cached_status)
       THEN [module |-> m, result |-> m.cached_status, raised |-> "None",
             queried_clock |-> FALSE, computed_local |-> FALSE, now_et |-> PyNone]
       ELSE IF ~IsNone(verdict)
       THEN [module |-> [m EXCEPT !.cached_status = verdict], result |-> verdict,
             raised |-> "None",
             queried_clock |-> TRUE, computed_local |-> FALSE, now_et |-> PyNone]
       ELSE [module |-> [m EXCEPT !.cached_status = local_status(now_et, now_utc)],
             result |-> local_status(now_et, now_utc), raised |-> "None",
             queried_clock |-> use_clock, computed_local |-> TRUE, now_et |-> now_et]

Hosts ==
    [tz : TzInstalls, dst : BOOLEAN, clock_idx : 1..Len(Instants),
     ALPACA_API_KEY : EnvValues, ALPACA_SECRET_KEY : EnvValues, clock : ClockOutcomes]

ModeInit ==
    /\ router = DataRouter
    /\ now = 0
    /\ market_open = FALSE
    /\ resp = NoResponse
    /\ GuardIdle
    /\ HistIdle
    /\ AppIdle
    /\ market_mode = NotLoaded
    /\ host \in {h \in Hosts : h.clock_idx = 1 /\ h.ALPACA_API_KEY # ""
                                /\ (h.dst => h.tz \in {"zoneinfo", "none"})}
    /\ mode_resp = PyNone

\* import market_mode
ImportMarketMode ==
    /\ market_mode.loaded = "no"
    /\ market_mode' = import_market_mode(host)
    /\ UNCHANGED <<appVars, routerVars, guardVars, histVars, host, mode_resp>>

GetMarketStatus ==
    /\ market_mode.loaded = "yes"
    /\ LET c == market_mode_get_market_status(market_mode, host)
       IN /\ market_mode' = c.module
          /\ mode_resp' = [raised |-> c.raised, result |-> c.result,
                           before |-> market_mode.cached_status,
                           t |-> host.clock_idx,
                           env |-> IF IsNone(market_mode.cached_status)
                                   THEN host ELSE PyNone,
                           queried_clock |-> c.queried_clock,
                           computed_local |-> c.computed_local, now_et |-> c.now_et]
    /\ UNCHANGED <<appVars, routerVars, guardVars, histVars, host>>

\* the wall clock reaches the next instant
AdvanceClock ==
    /\ host.clock_idx < Len(Instants)
    /\ host' = [host EXCEPT !.clock_idx = @ + 1]
    /\ UNCHANGED <<appVars, routerVars, guardVars, histVars, market_mode, mode_resp>>

\* the credentials are set or unset, the clock service changes its answer
ChangeEnvironment ==
    /\ \/ \E key \in EnvValues \ {""} : host' = [host EXCEPT !.ALPACA_API_KEY = key]
       \/ \E secret \in EnvValues : host' = [host EXCEPT !.ALPACA_SECRET_KEY = secret]
       \/ \E outcome \in ClockOutcomes : host' = [host EXCEPT !.clock = outcome]
    /\ host' # host
    /\ UNCHANGED <<appVars, routerVars, guardVars, histVars, market_mode, mode_resp>>

ModeNext ==
    \/ ImportMarketMode
    \/ GetMarketStatus
    \/ AdvanceClock
    \/ ChangeEnvironment

ModeSpec == ModeInit /\ [][ModeNext]_vars

ModeCalled == ~IsNone(mode_resp)

\* C21: a call made when a status is already cached returns that status,
\* reason and timestamp, queries neither the clock service nor the local
\* time, and leaves the cached status as it was.
C21_ResolvedOnce ==
    (ModeCalled /\ ~IsNone(mode_resp.before)) =>
        /\ mode_resp.result = mode_resp.before
        /\ market_mode.cached_status = mode_resp.before
        /\ ~mode_resp.queried_clock
        /\ ~mode_resp.computed_local

\* a cached CLOSED pre-market status answered after the wall clock passed the
\* open and the credentials and the clock service came up
C21_Witness ==
    /\ ModeCalled
    /\ ~IsNone(mode_resp.before)
    /\ mode_resp.result.reason = "Pre-market"
    /\ Instants[mode_resp.t] = Instant(4, 52200)
    /\ host.clock_idx = mode_resp.t
    /\ ~host.dst
    /\ host.ALPACA_API_KEY = "PK"
    /\ host.ALPACA_SECRET_KEY = "PK"
    /\ host.clock = "open"

\* C23: get_market_status never raises; a resolving call with both
\* credentials set and a clock query that succeeds returns the clock's
\* verdict without local calculation; with a credential missing or a failed
\* clock step it returns the local calculation.
C23_PriorityAndNoRaise ==
    ModeCalled =>
        /\ mode_resp.raised = "None"
        /\ mode_resp.result.status \in {"OPEN", "CLOSED"}
        /\ IsNone(mode_resp.before) =>
              IF /\ mode_resp.env.ALPACA_API_KEY \notin {"None", ""}
                 /\ mode_resp.env.ALPACA_SECRET_KEY \notin {"None", ""}
                 /\ mode_resp.env.clock \in {"open", "closed"}
              THEN /\ ~mode_resp.computed_local
                   /\ mode_resp.queried_clock
                   /\ mode_resp.result.status =
                         (IF mode_resp.env.clock = "open" THEN "OPEN" ELSE "CLOSED")
                   /\ mode_resp.result.reason \in
                         {"Market is Open", "Market is Closed (Alpaca Clock)"}
              ELSE /\ mode_resp.computed_local
                   /\ mode_resp.result.reason \in
                         {"Weekend", "Pre-market", "After hours", "Market Open (Local Time)"}

\* the clock says CLOSED while the local calculation would say OPEN
C23_Witness ==
    /\ ModeCalled
    /\ IsNone(mode_resp.before)
    /\ mode_resp.env.clock = "closed"
    /\ mode_resp.result.reason = "Market is Closed (Alpaca Clock)"
    /\ Instants[mode_resp.t] = Instant(4, 52200)
    /\ ~mode_resp.computed_local

\* the clock step fails and the local calculation answers
C23_WitnessFallback ==
    /\ ModeCalled
    /\ mode_resp.queried_clock
    /\ mode_resp.computed_local
    /\ mode_resp.env.clock = "APIError"

\* C24: the local calculation classifies the exchange-local time: Weekend
\* on Saturday and Sunday, else Pre-market before 09:30, After hours after
\* 16:00, and OPEN from 09:30 to 16:00 with both ends included.
C24_LocalClassification ==
    (ModeCalled /\ mode_resp.computed_local) =>
        LET t == mode_resp.now_et
            r == mode_resp.result
        IN /\ (t.day \in {5, 6}) => (r.status = "CLOSED" /\ r.reason = "Weekend")
           /\ (t.day \notin {5, 6} /\ t.sec < 34200) =>
                 (r.status = "CLOSED" /\ r.reason = "Pre-market")
           /\ (t.day \notin {5, 6} /\ t.sec > 57600) =>
                 (r.status = "CLOSED" /\ r.reason = "After hours")
           /\ (t.day \notin {5, 6} /\ t.sec >= 34200 /\ t.sec <= 57600) =>
                 (r.status = "OPEN" /\ r.reason = "Market Open (Local Time)")

\* 16:00:00 exactly on a weekday is still open
C24_Witness ==
    /\ ModeCalled
    /\ mode_resp.computed_local
    /\ mode_resp.now_et = Instant(4, 57600)
    /\ mode_resp.result.status = "OPEN"

\* C25: when no time-zone library is installed, or the library cannot
\* provide America/New_York, the resolver still loads and every local
\* calculation uses UTC-5.
C25_NoTimezoneDataDegrades ==
    (host.tz \in {"none", "zoneinfo_without_tzdata"} /\ market_mode.loaded # "no") =>
        /\ market_mode.loaded = "yes"
        /\ market_mode.eastern_tz = "None"
        /\ (ModeCalled /\ mode_resp.computed_local) =>
              mode_resp.now_et = shift_hours(mode_resp.result.timestamp, 5)

\* without any time-zone library the fixed offset is used, in daylight time too
C25_NoLibraryUsesFixedOffset ==
    (host.tz = "none" /\ ModeCalled /\ mode_resp.computed_local) =>
        mode_resp.now_et = shift_hours(mode_resp.result.timestamp, 5)

(***************************************************************************)
(* HistoricalDataService: loads over the cache directory it was built on   *)
(***************************************************************************)
\* A directory of well-formed and malformed files: SPY sorted and inside its
\* recorded dates; DIA unsorted, with a candle without timestamp and one
\* after the recorded end date; GLD not parseable; XLF ending with a candle
\* without timestamp; QQQ.json without dates in its name
MALFORMED_DIR ==
    <<CacheFile("SPY", 50, 130, 3, TRUE, <<Candle(50, 1), Candle(100, 2), Candle(130, 3)>>),
      CacheFile("DIA", 440, 500, 3, TRUE,
                <<Candle(500, 30), Candle(450, 31), [close |-> 32],
                  Candle(900, 33), Candle(480, 34)>>),
      CacheFile("GLD", 0, 10, 3, FALSE, << >>),
      CacheFile("XLF", 10, 20, 3, TRUE, <<Candle(10, 5), [close |-> 6]>>),
      CacheFile("QQQ", 0, 0, 1, TRUE, <<Candle(1, 1)>>)>>

\* the length of the series of SINGLE_SYMBOL_DIR
LongSeries == 23

\* A directory that holds one symbol only: QQQ with LongSeries daily candles
SINGLE_SYMBOL_DIR ==
    <<CacheFile("QQQ", 378, 377 + LongSeries, 3, TRUE,
                [i \in 1..LongSeries |-> Candle(377 + i, 100 + i)])>>

\* the cache directories a service is constructed on; the last one is empty
CacheDirs == {CACHE_DIR, MALFORMED_DIR, SINGLE_SYMBOL_DIR, << >>}

HistSymbolInputs == SymbolInputs \cup {"DIA", "GLD", "XLF"}

HistInit ==
    /\ router = DataRouter
    /\ now = 0
    /\ market_open = FALSE
    /\ resp = NoResponse
    /\ GuardIdle
    /\ ModeIdle
    /\ AppIdle
    /\ service \in {HistoricalDataService(dir) : dir \in CacheDirs}
    /\ hist_resp = PyNone
    /\ hist_kept = PyNone

\* the remembered load after one more call on the service
kept_after(other_call) ==
    IF IsNone(hist_kept) THEN hist_kept
    ELSE [hist_kept EXCEPT !.between = @ \/ other_call]

\* service.load_historical_data(symbol, time_range); the call may be remembered
\* for comparison with a later one
LoadHistoricalData ==
    \E symbol \in HistSymbolInputs, time_range \in TimeRangeInputs :
        LET c == HistoricalDataService_load_historical_data(service, symbol, time_range)
            call == [op |-> "load_historical_data", symbol |-> symbol,
                     time_range |-> time_range, result |-> c.result,
                     before |-> service]
        IN /\ service' = c.self
           /\ hist_resp' = call
           /\ hist_kept' \in
                 {kept_after(IF IsNone(hist_kept) THEN FALSE
                             ELSE hist_kept.symbol # symbol
                                  \/ hist_kept.time_range # time_range),
                  call @@ [between |-> FALSE]}
           /\ UNCHANGED <<appVars, routerVars, guardVars, modeVars>>

\* service.get_available_symbols(): a copy of the list
GetAvailableSymbols ==
    /\ hist_resp' = [op |-> "get_available_symbols", symbol |-> "None",
                     time_range |-> "None",
                     result |-> [symbols |-> service.available_symbols],
                     before |-> service]
    /\ hist_kept' = kept_after(TRUE)
    /\ UNCHANGED <<appVars, routerVars, guardVars, modeVars, service>>

\* service.generate_positions_from_historical(symbol, candles) on the candles
\* of the successful load that precedes it, as _get_historical_portfolio calls it
GeneratePositions ==
    /\ ~IsNone(hist_resp)
    /\ hist_resp.op = "load_historical_data"
    /\ hist_resp.result.status = "success"
    /\ hist_resp' = [op |-> "generate_positions_from_historical",
                     symbol |-> hist_resp.symbol,
                     time_range |-> hist_resp.time_range,
                     candles |-> hist_resp.result.candles,
                     result |-> [positions |->
                                   generate_positions_from_historical(
                                       hist_resp.symbol, hist_resp.result.candles)],
                     before |-> service]
    /\ hist_kept' = kept_after(TRUE)
    /\ UNCHANGED <<appVars, routerVars, guardVars, modeVars, service>>

\* get_market_data() of a router as __init__ leaves it, in HISTORICAL mode over
\* the service: the selection and symbol list its config reports and the load
\* of _get_historical_market_data
DefaultSelectionGetMarketData ==
    LET c == HistoricalDataService_load_historical_data(
                 service, DataRouter.selected_symbol, DataRouter.selected_time_range)
    IN /\ service' = c.self
       /\ hist_resp' = [op |-> "get_market_data",
                        symbol |-> DataRouter.selected_symbol,
                        time_range |-> DataRouter.selected_time_range,
                        config |-> [selected_symbol |-> DataRouter.selected_symbol,
                                    available_symbols |-> service.available_symbols],
                        result |-> c.result,
                        before |-> service]
       /\ hist_kept' = kept_after(TRUE)
       /\ UNCHANGED <<appVars, routerVars, guardVars, modeVars>>

HistNext ==
    \/ LoadHistoricalData
    \/ GetAvailableSymbols
    \/ GeneratePositions
    \/ DefaultSelectionGetMarketData

HistSpec == HistInit /\ [][HistNext]_vars

Loaded == ~IsNone(hist_resp) /\ hist_resp.op = "load_historical_data"

\* the file the directory holds for the symbol of the last load, if any
FilesOfLoad ==
    {i \in 1..Len(hist_resp.before.cache_dir) :
        /\ hist_resp.before.cache_dir[i].symbol = hist_resp.symbol
        /\ hist_resp.before.cache_dir[i].parts >= 3}

CachedSeries == hist_resp.before.cache_dir[CHOOSE i \in FilesOfLoad : TRUE]

\* C26: a load for a symbol without cache entry answers status error with
\* the not-found message, the available symbols, no candles and no
\* metadata, and leaves the service as it was.
C26_UnknownSymbolIsError ==
    (Loaded /\ FilesOfLoad = {}) =>
        /\ hist_resp.result.status = "error"
        /\ hist_resp.result.error = "not found in historical cache"
        /\ hist_resp.result.available_symbols = hist_resp.before.available_symbols
        /\ hist_resp.result.candles = << >>
        /\ hist_resp.result.metadata = PyNone
        /\ service = hist_resp.before

\* QQQ.json carries no dates in its name and is no cache entry
C26_Witness ==
    /\ Loaded
    /\ hist_resp.symbol = "QQQ"
    /\ hist_resp.before.available_symbols = <<"DIA", "GLD", "SPY", "XLF">>
    /\ hist_resp.result.status = "error"

\* the series has a last candle with a date, and the key is a valid range
WindowCase ==
    /\ Loaded
    /\ FilesOfLoad # {}
    /\ CachedSeries.readable
    /\ CachedSeries.data # << >>
    /\ hist_resp.time_range \in {"1M", "4M", "6M", "1Y"}

\* C27: for a cached non-empty series with last candle date D and a range
\* of m months, the load succeeds with exactly the cached candles dated on
\* or after D - 30 * m days, in cached order.
C27_WindowIsExact ==
    (WindowCase /\ "timestamp" \in DOMAIN CachedSeries.data[Len(CachedSeries.data)]) =>
        LET D == CachedSeries.data[Len(CachedSeries.data)].timestamp \div 24
            m == TIME_RANGES[hist_resp.time_range]
        IN /\ hist_resp.result.status = "success"
           /\ hist_resp.result.candles =
                 SelectSeq(CachedSeries.data,
                           LAMBDA c : "timestamp" \in DOMAIN c
                                      /\ c.timestamp \div 24 >= D - 30 * m)

\* one month before day 130 is day 100: the candle of day 100 stays, the
\* candle of day 50 goes
C27_Witness ==
    /\ Loaded
    /\ hist_resp.symbol = "SPY"
    /\ hist_resp.time_range = "1M"
    /\ hist_resp.result.candles = <<Candle(100, 2), Candle(130, 3)>>

\* C28: for a cached non-empty series and a valid range the returned
\* candles are not empty and contain the last cached candle.
C28_WindowNeverEmpty ==
    WindowCase =>
        /\ hist_resp.result.status = "success"
        /\ hist_resp.result.candles # << >>
        /\ hist_resp.result.candles[Len(hist_resp.result.candles)] =
              CachedSeries.data[Len(CachedSeries.data)]

\* a last candle 60 days after the one before it is alone in a 1M window
C28_Witness ==
    /\ Loaded
    /\ hist_resp.symbol = "SPY"
    /\ hist_resp.time_range = "1M"
    /\ hist_resp.before.cache_dir = CACHE_DIR
    /\ hist_resp.result.candles = <<Candle(400, 14)>>

\* C29: the candles of a successful load are non-decreasing in timestamp
\* and dated within the start and end date recorded for the cache file.
C29_SortedWithinBounds ==
    (Loaded /\ hist_resp.result.status = "success") =>
        LET cs == hist_resp.result.candles
            dated == {i \in 1..Len(cs) : "timestamp" \in DOMAIN cs[i]}
        IN /\ \A i, j \in dated : i < j => cs[i].timestamp <= cs[j].timestamp
           /\ \A i \in dated :
                 /\ hist_resp.result.metadata.cache_start_date <= cs[i].timestamp \div 24
                 /\ cs[i].timestamp \div 24 <= hist_resp.result.metadata.cache_end_date

\* C30: a load repeated on the same service answers the same status,
\* candles and metadata as the earlier one, whatever was called in
\* between, and the service keeps the available symbols and cache
\* metadata it was constructed with.
C30_LoadsIdempotent ==
    /\ service = HistoricalDataService(service.cache_dir)
    /\ (Loaded /\ ~IsNone(hist_kept)
          /\ hist_kept.symbol = hist_resp.symbol
          /\ hist_kept.time_range = hist_resp.time_range) =>
            /\ hist_resp.result.status = hist_kept.result.status
            /\ hist_resp.result.candles = hist_kept.result.candles
            /\ hist_resp.result.metadata = hist_kept.result.metadata

\* the same pair loaded again after a load of another symbol
C30_Witness ==
    /\ Loaded
    /\ ~IsNone(hist_kept)
    /\ hist_kept.symbol = "DIA"
    /\ hist_kept.time_range = "1M"
    /\ hist_resp.symbol = "DIA"
    /\ hist_resp.time_range = "1M"
    /\ hist_kept.between
    /\ hist_resp.result.status = "success"
    /\ Len(hist_resp.result.candles) = 4

\* the last call generated positions from a loaded series
Generated == ~IsNone(hist_resp) /\ hist_resp.op = "generate_positions_from_historical"

\* the position generated from a series of at least one candle
PositionOf(symbol, candles, position) ==
    LET n == Len(candles)
        steps == IF n - 1 < 20 THEN n - 1 ELSE 20
    IN /\ position.symbol = symbol
       /\ position.current_price = candles[n].close
       /\ position.entry_price = candles[n - steps].close
       /\ position.days_held = steps

\* C31: for every candle series of a successful load the generator returns
\* exactly one position, for the symbol, with the last close as current
\* price, the close min(20, len - 1) steps before the last as entry price
\* and that step count as days_held.
C31_OnePositionPerSeries ==
    Generated =>
        /\ Len(hist_resp.result.positions) = 1
        /\ PositionOf(hist_resp.symbol, hist_resp.candles, hist_resp.result.positions[1])

\* for a series of at least one candle the position is the one described
C31_OnePositionWhenCandles ==
    (Generated /\ hist_resp.candles # << >>) =>
        /\ Len(hist_resp.result.positions) = 1
        /\ PositionOf(hist_resp.symbol, hist_resp.candles, hist_resp.result.positions[1])

\* a series longer than 21 candles: the entry is 20 steps before the last
C31_LongSeriesReached ==
    /\ Generated
    /\ Len(hist_resp.candles) = LongSeries
    /\ hist_resp.result.positions[1].days_held = 20
    /\ hist_resp.result.positions[1].entry_price = hist_resp.candles[3].close

\* C38: over a cache that holds at least one symbol, the selection of a
\* router in HISTORICAL mode is among the available symbols its config
\* reports, the initial default included, and its market data is not
\* answered with the not-found error.
C38_DefaultSelectionAvailable ==
    (~IsNone(hist_resp) /\ hist_resp.op = "get_market_data"
       /\ hist_resp.config.available_symbols # << >>) =>
        /\ InSeq(hist_resp.config.selected_symbol, hist_resp.config.available_symbols)
        /\ hist_resp.result # not_found(hist_resp.before, hist_resp.symbol)

(***************************************************************************)
(* run_market_aware_analysis (market_aware_runner.py): the calls one run   *)
(* makes on the shared router, one step per call, runs on two threads      *)
(***************************************************************************)
Threads == {1, 2}

\* the (symbol, time_range) overrides a run is called with, by thread
Overrides(i) ==
    IF i = 1 THEN {[symbol |-> "QQQ", time_range |-> "1M"], [symbol |-> "", time_range |-> ""]}
    ELSE {[symbol |-> "IWM", time_range |-> "1Y"]}

\* a thread that is not running an analysis
IdleRequest ==
    [pc |-> "idle", symbol |-> "", time_range |-> "", alone |-> TRUE,
     mode_at_start |-> "None", symbol_set |-> FALSE, time_range_set |-> FALSE,
     routing_config |-> PyNone, market_data |-> PyNone, portfolio_data |-> PyNone,
     heatmap_mode |-> "None", candidates_mode |-> "None"]

\* what a call of a run may observe: the adapter's constructor fails or not
RunEnvs == {e \in Envs : e.positions = Returns(<<LivePosition>>)}

InFlight(i) == requests[i].pc \notin {"idle", "done"}

\* the mode of the branch a data operation took on router r
ServedMode(r) == IF IsOpen(r) THEN DATA_MODE_LIVE ELSE DATA_MODE_HISTORICAL

\* what the response keeps of the routing config (lines 284-294)
ConfigLabels(c) ==
    [data_mode |-> c.data_mode, data_source |-> c.data_source, is_open |-> c.is_open,
     selected_symbol |-> c.selected_symbol,
     selected_time_range |-> Get(c, "selected_time_range", "None")]

RunInit ==
    /\ router = DataRouter
    /\ now = 0
    /\ market_open \in BOOLEAN
    /\ resp = NoResponse
    /\ GuardIdle
    /\ ModeIdle
    /\ HistIdle
    /\ requests = [i \in Threads |-> IdleRequest]
    /\ backend = PyNone
    /\ api_resp = PyNone

RunUnchanged == UNCHANGED <<now, market_open, resp, guardVars, modeVars, histVars,
                            backend, api_resp>>

\* the time that passes in one step of the clock while runs are in flight:
\* more than the 60 seconds after which a status is stale
RunTickStep == 90

\* time passes between two calls
RunTick ==
    /\ now + RunTickStep <= MaxTime
    /\ now' = now + RunTickStep
    /\ UNCHANGED <<router, market_open, resp, guardVars, modeVars, histVars, appVars>>

\* run_market_aware_analysis(symbol=..., time_range=...) is entered on thread i
RunStart(i) ==
    /\ requests[i].pc = "idle"
    /\ \E o \in Overrides(i) :
          requests' =
            [j \in Threads |->
                IF j = i
                THEN [IdleRequest EXCEPT !.pc = "set_symbol",
                                         !.symbol = o.symbol,
                                         !.time_range = o.time_range,
                                         !.alone = \A k \in Threads \ {i} : ~InFlight(k),
                                         !.mode_at_start = router.data_mode]
                ELSE IF InFlight(j) THEN [requests[j] EXCEPT !.alone = FALSE]
                ELSE requests[j]]
    /\ UNCHANGED router
    /\ RunUnchanged

\* lines 87-92: if symbol: router.set_symbol(symbol), ValueError swallowed
RunSetSymbol(i) ==
    /\ requests[i].pc = "set_symbol"
    /\ \E e \in RunEnvs :
          IF requests[i].symbol = ""
          THEN /\ requests' = [requests EXCEPT ![i].pc = "set_time_range"]
               /\ UNCHANGED router
          ELSE LET c == set_symbol(router, requests[i].symbol, e)
               IN /\ router' = c.router
                  /\ requests' = [requests EXCEPT ![i].pc = "set_time_range",
                                                  ![i].symbol_set = (c.raised = "None")]
    /\ RunUnchanged

\* lines 94-99: if time_range: router.set_time_range(time_range)
RunSetTimeRange(i) ==
    /\ requests[i].pc = "set_time_range"
    /\ \E e \in RunEnvs :
          IF requests[i].time_range = ""
          THEN /\ requests' = [requests EXCEPT ![i].pc = "get_routing_config"]
               /\ UNCHANGED router
          ELSE LET c == set_time_range(router, requests[i].time_range, e)
               IN /\ router' = c.router
                  /\ requests' = [requests EXCEPT ![i].pc = "get_routing_config",
                                                  ![i].time_range_set = (c.raised = "None")]
    /\ RunUnchanged

\* line 102: routing_config = router.get_routing_config()
RunGetRoutingConfig(i) ==
    /\ requests[i].pc = "get_routing_config"
    /\ \E e \in RunEnvs :
          LET c == get_routing_config(router, e)
          IN /\ router' = c.router
             /\ requests' = [requests EXCEPT ![i].pc = "get_market_data",
                                             ![i].routing_config = ConfigLabels(c.config)]
    /\ RunUnchanged

\* line 108: market_data = router.get_market_data()
RunGetMarketData(i) ==
    /\ requests[i].pc = "get_market_data"
    /\ \E e \in RunEnvs, candles \in {Raises, Returns(<<LiveCandle>>)},
             headlines_raise \in {FALSE} :
          LET c == get_market_data(router, e, candles, headlines_raise)
          IN /\ router' = c.router
             /\ requests' =
                  [requests EXCEPT
                     ![i].pc = "get_portfolio_data",
                     ![i].market_data =
                        [mode |-> ServedMode(c.router),
                         data_mode |-> c.result.data_mode,
                         symbol |-> Get(c.result, "symbol", "None"),
                         time_range |-> Get(c.result, "time_range", "None"),
                         metadata_symbol |->
                            Get(Get(c.result, "metadata", PyNone), "symbol", "None"),
                         metadata_time_range |->
                            Get(Get(c.result, "metadata", PyNone), "time_range", "None")]]
    /\ RunUnchanged

\* line 109: portfolio_data = router.get_portfolio_data()
RunGetPortfolioData(i) ==
    /\ requests[i].pc = "get_portfolio_data"
    /\ \E e \in RunEnvs, portfolio \in RecOutcomes(LivePortfolio) :
          LET c == get_portfolio_data(router, e, portfolio)
          IN /\ router' = c.router
             /\ requests' =
                  [requests EXCEPT
                     ![i].pc = "get_sector_heatmap",
                     ![i].portfolio_data =
                        [mode |-> ServedMode(c.router),
                         status |-> c.result.status,
                         data_mode |-> Get(c.result, "data_mode", "None"),
                         metadata_symbol |->
                            Get(Get(c.result, "metadata", PyNone), "symbol", "None"),
                         metadata_time_range |->
                            Get(Get(c.result, "metadata", PyNone), "time_range", "None")]]
    /\ RunUnchanged

\* line 110: sector_heatmap = router.get_sector_heatmap()
RunGetSectorHeatmap(i) ==
    /\ requests[i].pc = "get_sector_heatmap"
    /\ \E e \in RunEnvs, heatmap \in RecOutcomes(LiveHeatmap) :
          LET c == get_sector_heatmap(router, e, heatmap)
          IN /\ router' = c.router
             /\ requests' = [requests EXCEPT ![i].pc = "get_candidates",
                                             ![i].heatmap_mode = ServedMode(c.router)]
    /\ RunUnchanged

\* line 111: candidates = router.get_candidates(); the response is built
\* from what the run holds
RunGetCandidates(i) ==
    /\ requests[i].pc = "get_candidates"
    /\ \E e \in RunEnvs, candidates \in {Returns(<< >>), Returns(<<LiveCandidate>>)} :
          LET c == get_candidates(router, e, candidates)
          IN /\ router' = c.router
             /\ requests' = [requests EXCEPT ![i].pc = "done",
                                             ![i].candidates_mode = ServedMode(c.router)]
    /\ RunUnchanged

RunNext ==
    \/ RunTick
    \/ MarketChange
    \/ \E i \in Threads : RunStart(i)
    \/ \E i \in Threads : RunSetSymbol(i)
    \/ \E i \in Threads : RunSetTimeRange(i)
    \/ \E i \in Threads : RunGetRoutingConfig(i)
    \/ \E i \in Threads : RunGetMarketData(i)
    \/ \E i \in Threads : RunGetPortfolioData(i)
    \/ \E i \in Threads : RunGetSectorHeatmap(i)
    \/ \E i \in Threads : RunGetCandidates(i)

RunSpec == RunInit /\ [][RunNext]_vars

\* a finished run whose two overrides were accepted and whose data was
\* served in HISTORICAL mode
HistoricalRunWithOverrides(i) ==
    /\ requests[i].pc = "done"
    /\ requests[i].symbol_set
    /\ requests[i].time_range_set
    /\ requests[i].market_data.mode = DATA_MODE_HISTORICAL
    /\ requests[i].portfolio_data.mode = DATA_MODE_HISTORICAL

OwnPairLoaded(i) ==
    /\ requests[i].market_data.symbol = requests[i].symbol
    /\ requests[i].market_data.time_range = requests[i].time_range
    /\ requests[i].market_data.metadata_symbol = requests[i].symbol
    /\ requests[i].market_data.metadata_time_range = requests[i].time_range
    /\ requests[i].portfolio_data.metadata_symbol = requests[i].symbol
    /\ requests[i].portfolio_data.metadata_time_range = requests[i].time_range

\* C34: every run whose overrides were accepted in HISTORICAL mode loads its
\* market and portfolio data for its own (symbol, time_range) pair, also
\* when another run with other overrides is in flight on the shared router.
C34_ConcurrentRunsKeepOwnPair ==
    \A i \in Threads : HistoricalRunWithOverrides(i) => OwnPairLoaded(i)

\* a run that no other run overlapped loads its own pair
C34_SerializedRunsKeepOwnPair ==
    \A i \in Threads :
        (HistoricalRunWithOverrides(i) /\ requests[i].alone) => OwnPairLoaded(i)

\* C35: in a run that no other run overlaps, the data_mode and data_source of
\* the response are those of the mode in which the router served the run's
\* market data, portfolio data and candidates, also when a refresh has
\* flipped the market status during the run.
C35_LabelsMatchServedMode ==
    \A i \in Threads :
        (requests[i].pc = "done" /\ requests[i].alone) =>
            LET q == requests[i]
            IN /\ q.market_data.mode = q.routing_config.data_mode
               /\ q.market_data.data_mode = q.routing_config.data_mode
               /\ q.portfolio_data.mode = q.routing_config.data_mode
               /\ q.portfolio_data.data_mode \in {"None", q.routing_config.data_mode}
               /\ q.candidates_mode = q.routing_config.data_mode
               /\ q.routing_config.is_open = (q.routing_config.data_mode = DATA_MODE_LIVE)
               /\ (q.routing_config.data_source = DATA_SOURCE_HISTORICAL)
                     = (q.market_data.mode = DATA_MODE_HISTORICAL)
               /\ q.routing_config.data_source
                     \in {DATA_SOURCE_HISTORICAL, DATA_SOURCE_LIVE, DATA_SOURCE_CONNECTION_ERROR}

\* a run that started on a router in HISTORICAL mode, whose set_symbol was
\* accepted on the stale status, and that was served and labelled LIVE
C35_Witness ==
    /\ requests[1].pc = "done"
    /\ requests[1].alone
    /\ requests[1].mode_at_start = DATA_MODE_HISTORICAL
    /\ requests[1].symbol_set
    /\ requests[1].routing_config.data_mode = DATA_MODE_LIVE
    /\ requests[1].market_data.mode = DATA_MODE_LIVE
    /\ requests[1].portfolio_data.mode = DATA_MODE_LIVE

(***************************************************************************)
(* The Flask backend (backend/app.py, rate_limit.py, api_routes.py): /run  *)
(***************************************************************************)
\* rate_limit.py 15-19: the Limiter is constructed without an app. Its
\* storage is made when it is attached with init_app, and app.py attaches
\* nothing: it registers the blueprint only.
limiter == [strategy |-> "fixed-window", storage_uri |-> "memory://", storage |-> PyNone]

\* get_run_limit(): the N of "N per minute" for the ENV in force
get_run_limit(env) == IF env = "production" THEN 5 ELSE 60

\* The check the decorator of /run makes before the view runs. With a storage
\* it counts the key's hits of the window; without one it is up to the
\* installed Flask-Limiter whether the call passes unchecked or raises.
limit_check(lim, key, limit, unattached) ==
    IF IsNone(lim.storage)
    THEN [limiter |-> lim, outcome |-> unattached]
    ELSE IF lim.storage[key] < limit
    THEN [limiter |-> [lim EXCEPT !.storage[key] = @ + 1], outcome |-> "pass"]
    ELSE [limiter |-> lim, outcome |-> "RateLimitExceeded"]

\* the memory file: missing, not parseable, or JSON with a last_run
MemoryFile(state, last_run) == [state |-> state, last_run |-> last_run]

\* a last_run entry; the timestamp is not carried
LastRun(market_posture, risk_level) ==
    [market_posture |-> market_posture, risk_level |-> risk_level]

\* ensure_memory_file(): create the file from DEFAULT_MEMORY when it is
\* missing; a failing write is printed only
ensure_memory_file(b) ==
    IF b.memory_file.state = "missing" /\ b.writable
    THEN [b EXCEPT !.memory_file = MemoryFile("json", b.DEFAULT_MEMORY.last_run)]
    ELSE b

\* load_agent_memory(): the backend after the call, the dict returned, and
\* whether that dict is the module's DEFAULT_MEMORY object
load_agent_memory(b) ==
    LET b1 == ensure_memory_file(b)
    IN IF b1.memory_file.state = "json"
       THEN [backend |-> b1, memory |-> [last_run |-> b1.memory_file.last_run],
             is_default |-> FALSE]
       ELSE [backend |-> b1, memory |-> b1.DEFAULT_MEMORY, is_default |-> TRUE]

\* save_agent_memory(memory): a failing write is printed only
save_agent_memory(b, memory) ==
    IF b.writable
    THEN [b EXCEPT !.memory_file = MemoryFile("json", memory.last_run)]
    ELSE b

risk_order(level) ==
    CASE level = "LOW" -> 0 [] level = "MEDIUM" -> 1 [] level = "HIGH" -> 2 [] OTHER -> 1

\* an unknown level counted as LOW
compute_risk_trend_unknown_low(previous_risk, current_risk) ==
    LET val(level) == IF level \in {"LOW", "MEDIUM", "HIGH"} THEN risk_order(level) ELSE 0
    IN IF val(current_risk) > val(previous_risk) THEN "RISK_INCREASING"
       ELSE IF val(current_risk) < val(previous_risk) THEN "RISK_DECREASING"
       ELSE "STABLE"

compute_risk_trend(previous_risk, current_risk) ==
    IF risk_order(current_risk) > risk_order(previous_risk) THEN "RISK_INCREASING"
    ELSE IF risk_order(current_risk) < risk_order(previous_risk) THEN "RISK_DECREASING"
    ELSE "STABLE"

\* What run_market_aware_analysis gives the view: it raises, or it returns a
\* result whose analysis.market_posture is the decision engine's posture
\* record, possibly without fields
AnalysisOutcomes ==
    {[raises |-> TRUE, posture |-> EmptyDict],
     [raises |-> FALSE, posture |-> EmptyDict],
     [raises |-> FALSE, posture |-> LastRun("NEUTRAL", "LOW")],
     [raises |-> FALSE, posture |-> LastRun("DEFENSIVE", "HIGH")],
     [raises |-> FALSE, posture |-> LastRun("AGGRESSIVE", "EXTREME")]}

Clients == {"10.0.0.1", "10.0.0.2"}

\* the /run requests that arrive within one window of the limiter from the
\* first client, and from each other client
MaxArrivals == 6
MaxOtherArrivals == 1
ArrivalsBound(client) == IF client = "10.0.0.1" THEN MaxArrivals ELSE MaxOtherArrivals

\* run_agent(): the decorator's check, then the view
run_agent(b, client, unattached, analysis) ==
    LET chk == limit_check(b.limiter, client, get_run_limit(b.ENV), unattached)
        b0 == [b EXCEPT !.limiter = chk.limiter]
        loaded == load_agent_memory(b0)
        b1 == loaded.backend
        previous_run == loaded.memory.last_run
        previous_posture == IF IsNone(previous_run) THEN "None"
                            ELSE previous_run.market_posture
        previous_risk == IF IsNone(previous_run) THEN "None" ELSE previous_run.risk_level
        current_posture == Get(analysis.posture, "market_posture", "NEUTRAL")
        current_risk == Get(analysis.posture, "risk_level", "MEDIUM")
        trend == IF previous_risk \notin {"None", ""}
                 THEN compute_risk_trend(previous_risk, current_risk)
                 ELSE "FIRST_RUN"
        last_run == LastRun(current_posture, current_risk)
        memory == [loaded.memory EXCEPT !.last_run = last_run]
        b2 == IF loaded.is_default THEN [b1 EXCEPT !.DEFAULT_MEMORY = memory] ELSE b1
    IN IF chk.outcome = "raise"
       THEN [backend |-> b0, status |-> 500, memory |-> PyNone]
       ELSE IF chk.outcome = "RateLimitExceeded"
       THEN [backend |-> b0, status |-> 429, memory |-> PyNone]
       ELSE IF analysis.raises
       THEN [backend |-> b1, status |-> 500, memory |-> PyNone]
       ELSE [backend |-> save_agent_memory(b2, memory), status |-> 200,
             memory |-> [previous_posture |-> previous_posture,
                         previous_risk |-> previous_risk,
                         current_posture |-> current_posture,
                         current_risk |-> current_risk,
                         trend |-> trend]]

\* the process after import: ENV as the host sets it, the memory file as the
\* last process left it, nothing arrived yet
ApiInit ==
    /\ router = DataRouter
    /\ now = 0
    /\ market_open = FALSE
    /\ resp = NoResponse
    /\ GuardIdle
    /\ ModeIdle
    /\ HistIdle
    /\ requests = PyNone
    /\ \E env \in {"production", "development"},
          state \in {"missing", "corrupt", "json"}, writable \in BOOLEAN :
          backend = [ENV |-> env,
                     limiter |-> limiter,
                     DEFAULT_MEMORY |-> [last_run |-> PyNone],
                     memory_file |-> MemoryFile(state, PyNone),
                     writable |-> writable,
                     arrived |-> [c \in Clients |-> 0],
                     last_success |-> PyNone,
                     last_save_ok |-> TRUE]
    /\ api_resp = PyNone

ApiUnchanged == UNCHANGED <<routerVars, guardVars, modeVars, histVars, requests>>

\* a /run request of a client is handled
RunAgent ==
    /\ \E client \in Clients, unattached \in {"pass", "raise"},
          analysis \in AnalysisOutcomes :
          /\ backend.arrived[client] < ArrivalsBound(client)
          /\ LET c == run_agent(backend, client, unattached, analysis)
              own == LastRun(Get(analysis.posture, "market_posture", "NEUTRAL"),
                             Get(analysis.posture, "risk_level", "MEDIUM"))
             IN /\ backend' =
                     [c.backend EXCEPT
                        !.arrived[client] = @ + 1,
                        !.last_success = IF c.status = 200 THEN own ELSE @,
                        !.last_save_ok = IF c.status = 200 THEN backend.writable ELSE @]
                /\ api_resp' = [status |-> c.status, memory |-> c.memory,
                                client |-> client, env |-> backend.ENV,
                                nth |-> backend.arrived[client] + 1,
                                limit_check |-> IF IsNone(backend.limiter.storage)
                                                THEN unattached ELSE "counted",
                                own |-> own,
                                before |-> [last_success |-> backend.last_success,
                                            last_save_ok |-> backend.last_save_ok,
                                            writable |-> backend.writable,
                                            memory_file |-> backend.memory_file]]
    /\ ApiUnchanged

\* the limiter's one-minute window ends; the host may restart the process's
\* environment with another ENV
NextWindow ==
    /\ \E c \in Clients : backend.arrived[c] > 0
    /\ \E env \in {"production", "development"} :
          backend' = [backend EXCEPT !.ENV = env,
                                     !.arrived = [c \in Clients |-> 0]]
    /\ api_resp' = PyNone
    /\ ApiUnchanged

\* the memory file's directory becomes read-only or writable again
DiskChange ==
    /\ backend' = [backend EXCEPT !.writable = ~@]
    /\ api_resp' = PyNone
    /\ ApiUnchanged

ApiNext ==
    \/ RunAgent
    \/ NextWindow
    \/ DiskChange

ApiSpec == ApiInit /\ [][ApiNext]_vars

Handled == ~IsNone(api_resp)
Succeeded == Handled /\ api_resp.status = 200

\* C33: with ENV=production the first 5 /run requests of a client in a
\* window pass the limiter and reach the view, and every further one of the
\* window is answered 429.
C33_ProductionLimit ==
    (Handled /\ api_resp.env = "production") =>
        IF api_resp.nth <= 5
        THEN api_resp.limit_check \in {"pass", "counted"} /\ api_resp.status # 429
        ELSE api_resp.status = 429

\* the trend the claim describes for a previous and a current risk level
TrendOf(previous, current) ==
    LET rank(level) == IF level = "LOW" THEN 0 ELSE IF level = "HIGH" THEN 2 ELSE 1
    IN IF IsNone(previous) THEN "FIRST_RUN"
       ELSE IF rank(current) > rank(previous.risk_level) THEN "RISK_INCREASING"
       ELSE IF rank(current) < rank(previous.risk_level) THEN "RISK_DECREASING"
       ELSE "STABLE"

\* the memory block of a successful run reports the run `previous`
ReportsPrevious(previous) ==
    /\ api_resp.memory.previous_posture =
          (IF IsNone(previous) THEN "None" ELSE previous.market_posture)
    /\ api_resp.memory.previous_risk =
          (IF IsNone(previous) THEN "None" ELSE previous.risk_level)
    /\ api_resp.memory.trend = TrendOf(previous, api_resp.memory.current_risk)

\* what the next load will find as last_run
StoredLastRun == load_agent_memory(backend).memory.last_run

====
